---- MODULE Spec2Model ----
(***************************************************************************)
(* A model of the DM3/DM4 tag-file codec (parse_dm3.py) and of the image   *)
(* layer built on it (dm3_image_utils.py).                                 *)
(*                                                                         *)
(* Streams are sequences of bytes (0..255) with a position.  Python values *)
(* are records [t |-> <type name>, v |-> <payload>]:                       *)
(*   none   v = 0                                                          *)
(*   bool   v \in BOOLEAN                                                  *)
(*   int    v = [neg, mag]: sign and little-endian magnitude bytes without *)
(*          trailing zeros (arbitrary precision, as Python's int)          *)
(*   float  v = the 8 bytes of the IEEE-754 double, most significant first *)
(*   str    v = the sequence of code points                                *)
(*   list, tuple   v = the sequence of items                               *)
(*   dict   v = the sequence of <<key, value>> pairs in insertion order,   *)
(*          a key being a str value or none                                *)
(*   array  (array.array) v = [typecode, items]                            *)
(*   dcw    (DataChunkWriter over a numpy array) v = [char, itemsize,      *)
(*          shape, items], items in C order                                *)
(*   structarray  v = [typecodes, raw_data], raw_data a bytes value (the    *)
(*          content of the array of type "b" it holds) or a none value     *)
(*   bytes  v = the sequence of bytes                                      *)
(* An exception is the name of its type in the err field of the stream     *)
(* context; once set, every later step of the call is skipped.             *)
(***************************************************************************)
EXTENDS Integers, Sequences, FiniteSets, TLC

VARIABLES
    version,    \* parse_dm3.version, a module global
    size_type,  \* parse_dm3.size_type, a module global
    pc,         \* where the caller is: "start", "written", "done"
    func,       \* which writer/reader pair the caller runs
    tid,        \* the tag type id the pair is registered for (0: not used)
    data,       \* the value handed to the writer
    f,          \* the stream: [buf, pos]
    wret,       \* what the writer returned: [err, header]
    rret        \* what the reader returned: [err, val, header]

vars == <<version, size_type, pc, func, tid, data, f, wret, rret>>

----------------------------------------------------------------------------
(* Bounds of the model *)

\* stands for 64 * 1024 * 1024, the number DataChunkWriter.write compares a
\* chunk's element count with (parse_dm3.py line 657), scaled down so that
\* arrays on both sides of it can be enumerated
ChunkLimit == 2

\* the longest struct the caller writes
MaxArity == 5

\* the most fields of a StructArray the caller writes
MaxFields == 2

\* the most dimensions of an array the caller writes
MaxRank == 3

----------------------------------------------------------------------------
(* Bytes and integers *)

Max(a, b) == IF a >= b THEN a ELSE b
Min(a, b) == IF a <= b THEN a ELSE b

Pow2(k) == 2 ^ k

Zeros(n) == [i \in 1..n |-> 0]

Reverse(s) == [i \in 1..Len(s) |-> s[Len(s) + 1 - i]]

RECURSIVE Strip(_)
Strip(m) ==
    IF m = <<>> THEN m
    ELSE IF m[Len(m)] = 0 THEN Strip(SubSeq(m, 1, Len(m) - 1)) ELSE m

RECURSIVE NatMag(_)
NatMag(n) == IF n = 0 THEN <<>> ELSE <<n % 256>> \o NatMag(n \div 256)

RECURSIVE MagNat(_)
MagNat(m) == IF m = <<>> THEN 0 ELSE m[1] + 256 * MagNat(Tail(m))

RECURSIVE MagLtAt(_, _, _)
MagLtAt(a, b, i) ==
    IF i = 0 THEN FALSE
    ELSE IF a[i] # b[i] THEN a[i] < b[i] ELSE MagLtAt(a, b, i - 1)

MagLt(a, b) ==
    IF Len(a) # Len(b) THEN Len(a) < Len(b) ELSE MagLtAt(a, b, Len(a))

RECURSIVE MagDec(_)
MagDec(m) ==
    IF m[1] > 0 THEN <<m[1] - 1>> \o Tail(m) ELSE <<255>> \o MagDec(Tail(m))

RECURSIVE MagInc(_)
MagInc(m) ==
    IF m = <<>> THEN <<1>>
    ELSE IF m[1] < 255 THEN <<m[1] + 1>> \o Tail(m)
    ELSE <<0>> \o MagInc(Tail(m))

Invert(m) == [i \in 1..Len(m) |-> 255 - m[i]]

Pad(m, w) == m \o Zeros(w - Len(m))

----------------------------------------------------------------------------
(* Python values *)

PyNone == [t |-> "none", v |-> 0]
PyBool(b) == [t |-> "bool", v |-> b]
PyIntB(neg, mag) == [t |-> "int", v |-> [neg |-> neg, mag |-> mag]]
PyInt(n) == PyIntB(n < 0, NatMag(IF n < 0 THEN 0 - n ELSE n))
PyFloat(bits) == [t |-> "float", v |-> bits]
PyStr(cps) == [t |-> "str", v |-> cps]
PyList(items) == [t |-> "list", v |-> items]
PyTuple(items) == [t |-> "tuple", v |-> items]
PyDict(pairs) == [t |-> "dict", v |-> pairs]
PyArray(typecode, items) ==
    [t |-> "array", v |-> [typecode |-> typecode, items |-> items]]
NdArray(char, itemsize, shape, items) ==
    [char |-> char, itemsize |-> itemsize, shape |-> shape, items |-> items]
PyDCW(char, itemsize, shape, items) ==
    [t |-> "dcw", v |-> NdArray(char, itemsize, shape, items)]
PyBytes(b) == [t |-> "bytes", v |-> b]
PyStructArray(typecodes, raw) ==
    [t |-> "structarray", v |-> [typecodes |-> typecodes, raw_data |-> raw]]

\* x < y on Python ints
IntLt(x, y) ==
    IF x.v.neg /\ ~y.v.neg THEN TRUE
    ELSE IF ~x.v.neg /\ y.v.neg THEN FALSE
    ELSE IF x.v.neg THEN MagLt(y.v.mag, x.v.mag)
    ELSE MagLt(x.v.mag, y.v.mag)

\* bool is a subclass of int: True is 1 and False is 0 wherever an int is taken
AsInt(x) == IF x.t = "bool" THEN PyInt(IF x.v THEN 1 ELSE 0) ELSE x

IsInstanceInt(x) == x.t \in {"int", "bool"}

----------------------------------------------------------------------------
(* The struct module: sizes, packing and unpacking *)

\* standard size of a format character (the size under "<" and ">")
StdSize(c) ==
    CASE c \in {"b", "B"} -> 1
      [] c \in {"h", "H"} -> 2
      [] c \in {"i", "I", "l", "L", "f"} -> 4
      [] c \in {"q", "Q", "d"} -> 8

IsSignedChar(c) == c \in {"b", "h", "i", "l", "q"}
IsFloatChar(c) == c \in {"f", "d"}

\* the range check struct.pack makes on an integer argument
FitsInt(x, w, signed) ==
    LET m == x.v.mag IN
    IF ~signed THEN ~x.v.neg /\ Len(m) <= w
    ELSE IF ~x.v.neg THEN Len(m) < w \/ (Len(m) = w /\ m[w] < 128)
    ELSE \/ Len(m) < w
         \/ /\ Len(m) = w
            /\ \/ m[w] < 128
               \/ m[w] = 128 /\ \A i \in 1..(w - 1) : m[i] = 0

\* two's complement, least significant byte first
IntToLE(x, w) ==
    IF ~x.v.neg THEN Pad(x.v.mag, w) ELSE Invert(Pad(MagDec(x.v.mag), w))

IntFromLE(b, signed) ==
    IF signed /\ b[Len(b)] >= 128
    THEN PyIntB(TRUE, Strip(MagInc(Invert(b))))
    ELSE PyIntB(FALSE, Strip(b))

\* the fields of a double given by its 8 bytes, most significant first
F64Sign(b) == b[1] \div 128
F64Exp(b) == (b[1] % 128) * 16 + b[2] \div 16
F64ManHi(b) == (b[2] % 16) * 524288 + b[3] * 2048 + b[4] * 8 + b[5] \div 32
F64ManLo(b) == (b[5] % 32) * 16777216 + b[6] * 65536 + b[7] * 256 + b[8]

F64Make(s, e, mhi, mlo) ==
    << s * 128 + e \div 16,
       (e % 16) * 16 + mhi \div 524288,
       (mhi \div 2048) % 256,
       (mhi \div 8) % 256,
       (mhi % 8) * 32 + mlo \div 16777216,
       (mlo \div 65536) % 256,
       (mlo \div 256) % 256,
       mlo % 256 >>

F32Make(s, e, m) ==
    << s * 128 + e \div 2, (e % 2) * 128 + m \div 65536, (m \div 256) % 256, m % 256 >>

\* the C cast (float)x, round to nearest even: the 4 bytes, most significant
\* first, or <<>> when a finite double overflows the single format; a NaN
\* keeps its sign and the high bits of its payload and comes out quiet
F64to32(b) ==
    LET s == F64Sign(b)
        e == F64Exp(b)
        mhi == F64ManHi(b)
        mlo == F64ManLo(b)
        E == e - 896
    IN  IF e = 2047
        THEN F32Make(s, 255, IF mhi = 0 /\ mlo = 0 THEN 0
                             ELSE IF mhi >= 4194304 THEN mhi
                             ELSE mhi + 4194304)
        ELSE IF e = 0 THEN F32Make(s, 0, 0)
        ELSE IF E >= 1
        THEN LET up == mlo > 268435456 \/ (mlo = 268435456 /\ mhi % 2 = 1)
                 r == mhi + (IF up THEN 1 ELSE 0)
                 E2 == IF r = 8388608 THEN E + 1 ELSE E
                 r2 == IF r = 8388608 THEN 0 ELSE r
             IN  IF E2 >= 255 THEN <<>> ELSE F32Make(s, E2, r2)
        ELSE LET shift == 1 - E IN
             IF shift >= 25 THEN F32Make(s, 0, 0)
             ELSE LET sig == 8388608 + mhi
                      q == sig \div Pow2(shift)
                      rem == sig % Pow2(shift)
                      half == Pow2(shift - 1)
                      up == \/ rem > half
                            \/ rem = half /\ (mlo > 0 \/ q % 2 = 1)
                      m == q + (IF up THEN 1 ELSE 0)
                  IN  F32Make(s, m \div 8388608, m % 8388608)

RECURSIVE NormShift(_)
NormShift(m) == IF m >= 8388608 THEN 0 ELSE 1 + NormShift(2 * m)

\* the exact widening of a single to a double
F32to64(c) ==
    LET s == c[1] \div 128
        E == (c[1] % 128) * 2 + c[2] \div 128
        m == (c[2] % 128) * 65536 + c[3] * 256 + c[4]
    IN  IF E = 255 THEN F64Make(s, 2047, m, 0)
        ELSE IF E = 0 /\ m = 0 THEN F64Make(s, 0, 0, 0)
        ELSE IF E = 0
        THEN LET k == NormShift(m) IN
             F64Make(s, 897 - k, m * Pow2(k) - 8388608, 0)
        ELSE F64Make(s, E + 896, m, 0)

\* the bits of a byte sequence given least significant byte first, most
\* significant bit first, without leading zeros
ByteBits(b) == [i \in 1..8 |-> (b \div Pow2(8 - i)) % 2]

MagBitsAll(m) ==
    [i \in 1..(8 * Len(m)) |-> ByteBits(m[Len(m) - ((i - 1) \div 8)])[((i - 1) % 8) + 1]]

StripLead(bits) ==
    LET I == {i \in 1..Len(bits) : bits[i] = 1} IN
    IF I = {} THEN <<>>
    ELSE SubSeq(bits, CHOOSE i \in I : \A j \in I : i <= j, Len(bits))

MagBits(m) == StripLead(MagBitsAll(m))

\* bits, most significant first, plus one: [carry, bits]
BitsInc(bits) ==
    LET Z == {i \in 1..Len(bits) : bits[i] = 0} IN
    IF Z = {} THEN [carry |-> 1, bits |-> [i \in 1..Len(bits) |-> 0]]
    ELSE LET k == CHOOSE i \in Z : \A j \in Z : j <= i IN
         [carry |-> 0,
          bits |-> [i \in 1..Len(bits) |->
                       IF i < k THEN bits[i] ELSE IF i = k THEN 1 ELSE 0]]

NatBits(n, w) == [i \in 1..w |-> (n \div Pow2(w - i)) % 2]

BitsToBytes(bits) ==
    [k \in 1..(Len(bits) \div 8) |->
        bits[8 * k - 7] * 128 + bits[8 * k - 6] * 64 + bits[8 * k - 5] * 32
          + bits[8 * k - 4] * 16 + bits[8 * k - 3] * 8 + bits[8 * k - 2] * 4
          + bits[8 * k - 1] * 2 + bits[8 * k]]

\* float(x) for a Python int, round to nearest even: the 8 bytes of the
\* double, most significant first, or <<>> for OverflowError
IntToF64(x) ==
    LET bits == MagBits(x.v.mag)
        L == Len(bits)
        sgn == IF x.v.neg THEN 1 ELSE 0
    IN  IF L = 0 THEN Zeros(8)
        ELSE IF L <= 53
        THEN BitsToBytes(<<sgn>> \o NatBits(1023 + L - 1, 11)
                         \o SubSeq(bits, 2, L) \o Zeros(53 - L))
        ELSE LET mant == SubSeq(bits, 2, 53)
                 up == /\ bits[54] = 1
                       /\ \/ bits[53] = 1
                          \/ \E i \in 55..L : bits[i] = 1
                 r == IF up THEN BitsInc(mant) ELSE [carry |-> 0, bits |-> mant]
                 e == 1023 + L - 1 + r.carry
             IN  IF e > 2046 THEN <<>>
                 ELSE BitsToBytes(<<sgn>> \o NatBits(e, 11) \o r.bits)

\* struct.pack("<" + c, x): [err, bytes]
struct_pack_le(c, x) ==
    IF IsFloatChar(c)
    THEN IF ~(x.t = "float" \/ IsInstanceInt(x))
         THEN [err |-> "struct.error", bytes |-> <<>>]
         ELSE LET d == IF x.t = "float" THEN x.v ELSE IntToF64(AsInt(x)) IN
              IF d = <<>> THEN [err |-> "OverflowError", bytes |-> <<>>]
              ELSE IF c = "d" THEN [err |-> "", bytes |-> Reverse(d)]
              ELSE LET r == F64to32(d) IN
                   IF r = <<>> THEN [err |-> "OverflowError", bytes |-> <<>>]
                   ELSE [err |-> "", bytes |-> Reverse(r)]
    ELSE IF ~IsInstanceInt(x) THEN [err |-> "struct.error", bytes |-> <<>>]
    ELSE IF ~FitsInt(AsInt(x), StdSize(c), IsSignedChar(c))
    THEN [err |-> "struct.error", bytes |-> <<>>]
    ELSE [err |-> "", bytes |-> IntToLE(AsInt(x), StdSize(c))]

\* struct.unpack("<" + c, bytes)[0]
struct_unpack_le(c, b) ==
    IF c = "d" THEN PyFloat(Reverse(b))
    ELSE IF c = "f" THEN PyFloat(F32to64(Reverse(b)))
    ELSE IntFromLE(b, IsSignedChar(c))

----------------------------------------------------------------------------
(* Streams (io.BytesIO) and the module globals the codec reads *)

\* the context of one codec call: the stream, the pending exception, and the
\* module globals version and size_type as the call sees and sets them
Ctx(fs, ver, st) ==
    [buf |-> fs.buf, pos |-> fs.pos, err |-> "", version |-> ver, size_type |-> st]

Raise(s, e) == IF s.err # "" THEN s ELSE [s EXCEPT !.err = e]

WriteAt(buf, pos, bs) ==
    IF pos >= Len(buf) THEN buf \o Zeros(pos - Len(buf)) \o bs
    ELSE SubSeq(buf, 1, pos) \o bs \o SubSeq(buf, pos + Len(bs) + 1, Len(buf))

f_write(s, bs) ==
    IF s.err # "" THEN s
    ELSE [s EXCEPT !.buf = WriteAt(s.buf, s.pos, bs), !.pos = s.pos + Len(bs)]

f_seek(s, p) == IF s.err # "" THEN s ELSE [s EXCEPT !.pos = p]

\* f.seek(0, 2)
f_seek_end(s) == IF s.err # "" THEN s ELSE [s EXCEPT !.pos = Len(s.buf)]

\* f.read(n): [bytes, s]; a short read at the end of the stream
f_read(s, n) ==
    LET m == Max(0, Min(n, Len(s.buf) - s.pos)) IN
    [bytes |-> SubSeq(s.buf, s.pos + 1, s.pos + m),
     s |-> [s EXCEPT !.pos = s.pos + m]]

\* the byte width of a size field: struct.calcsize(">L") is 4, (">Q") is 8
SizeW(st) == IF st = "Q" THEN 8 ELSE 4

\* an unsigned big-endian field of w bytes holding n (n below 2^31)
BE(n, w) ==
    [i \in 1..w |-> IF w - i >= 4 THEN 0 ELSE (n \div Pow2(8 * (w - i))) % 256]

\* the value of an unsigned big-endian field; 2^31 - 1 stands for every value
\* from 2^31 - 1 on (no count, length or type id of a well-formed stream
\* comes near it)
Huge == 2147483646 + 1
UBE(b) ==
    LET w == Len(b)
        hi == SubSeq(b, 1, w - 4)
        lo == SubSeq(b, Max(1, w - 3), w)
    IN  IF (\E i \in 1..Len(hi) : hi[i] # 0) \/ (w >= 4 /\ lo[1] >= 128)
        THEN Huge
        ELSE MagNat(Reverse(lo))

\* struct.pack of one integer n under a big-endian unsigned format of w bytes
\* ("> L", "> Q", "> H") or a signed one ("> b", "> l"): put_into_file
put_uint(s, n, w) ==
    IF s.err # "" THEN s
    ELSE IF n < 0 THEN Raise(s, "struct.error")
    ELSE IF w < 4 /\ n >= Pow2(8 * w) THEN Raise(s, "struct.error")
    ELSE f_write(s, BE(n, w))

put_size(s, n) == put_uint(s, n, SizeW(s.size_type))

\* get_from_file for w raw bytes: the assert on a short read
get_bytes(s, w) ==
    IF s.err # "" THEN [bytes |-> <<>>, s |-> s]
    ELSE LET r == f_read(s, w) IN
         IF Len(r.bytes) # w
         THEN [bytes |-> <<>>, s |-> Raise(r.s, "AssertionError")]
         ELSE r

\* get_from_file for one unsigned big-endian field: [n, s]
get_uint(s, w) ==
    LET r == get_bytes(s, w) IN
    [n |-> IF r.s.err # "" THEN 0 ELSE UBE(r.bytes), s |-> r.s]

get_size(s) == get_uint(s, SizeW(s.size_type))

----------------------------------------------------------------------------
(* The type registry *)

TAG_TYPE_ARRAY == 20
TAG_TYPE_DATA == 21

dm_simple_names ==
    << [key |-> 8,  name |-> "bool",   sc |-> "b", types |-> <<"bool">>],
       [key |-> 2,  name |-> "short",  sc |-> "h", types |-> <<>>],
       [key |-> 3,  name |-> "long",   sc |-> "i", types |-> <<"int">>],
       [key |-> 4,  name |-> "ushort", sc |-> "H", types |-> <<>>],
       [key |-> 5,  name |-> "uint",   sc |-> "I", types |-> <<"int">>],
       [key |-> 6,  name |-> "float",  sc |-> "f", types |-> <<>>],
       [key |-> 7,  name |-> "double", sc |-> "d", types |-> <<"float">>],
       [key |-> 9,  name |-> "char",   sc |-> "b", types |-> <<>>],
       [key |-> 10, name |-> "octet",  sc |-> "b", types |-> <<>>],
       [key |-> 11, name |-> "int64",  sc |-> "q", types |-> <<>>],
       [key |-> 12, name |-> "uint64", sc |-> "Q", types |-> <<>>] >>

dm_complex_names ==
    << [key |-> 18, name |-> "string"],
       [key |-> 15, name |-> "struct"],
       [key |-> TAG_TYPE_ARRAY, name |-> "array"] >>

\* the index of the first element of seq that satisfies P, or 0
First(seq, P(_)) ==
    LET I == {i \in 1..Len(seq) : P(seq[i])} IN
    IF I = {} THEN 0 ELSE CHOOSE i \in I : \A j \in I : i <= j

SimpleIds == {dm_simple_names[i].key : i \in 1..Len(dm_simple_names)}

get_dmtype_for_name(name) ==
    LET i == First(dm_simple_names, LAMBDA e : e.name = name)
        j == First(dm_complex_names, LAMBDA e : e.name = name)
    IN  IF i # 0 THEN dm_simple_names[i].key
        ELSE IF j # 0 THEN dm_complex_names[j].key
        ELSE 0

\* isinstance(value, t) for the types the registry lists
isinstance(value, t) ==
    CASE t = "bool" -> value.t = "bool"
      [] t = "int" -> value.t \in {"int", "bool"}
      [] t = "float" -> value.t = "float"

MinInt32 == PyIntB(TRUE, <<0, 0, 0, 128>>)          \* -2**31
MaxInt32 == PyIntB(FALSE, <<255, 255, 255, 127>>)   \* 2**31 - 1

\* the lookup without the 64-bit case: every int is a "long"
get_structdmtypes_32(value) ==
    LET i == First(dm_simple_names,
                   LAMBDA e : \E k \in 1..Len(e.types) : isinstance(value, e.types[k]))
    IN  IF i # 0
        THEN [sc |-> dm_simple_names[i].sc, dmtype |-> dm_simple_names[i].key]
        ELSE [sc |-> "None", dmtype |-> 6]

get_structdmtypes_for_python_typeorobject(value) ==
    IF /\ IsInstanceInt(value)
       /\ ~(IntLt(MinInt32, AsInt(value)) /\ IntLt(AsInt(value), MaxInt32))
    THEN [sc |-> "q", dmtype |-> 11]
    ELSE LET i == First(dm_simple_names,
                        LAMBDA e : \E k \in 1..Len(e.types) : isinstance(value, e.types[k]))
         IN  IF i # 0
             THEN [sc |-> dm_simple_names[i].sc, dmtype |-> dm_simple_names[i].key]
             ELSE IF value.t = "str"
             THEN [sc |-> "None", dmtype |-> get_dmtype_for_name("array")]
             ELSE IF value.t \in {"array", "dcw"}
             THEN [sc |-> "None", dmtype |-> get_dmtype_for_name("array")]
             ELSE IF value.t = "tuple"
             THEN [sc |-> "None", dmtype |-> get_dmtype_for_name("struct")]
             ELSE IF value.t = "structarray"
             THEN [sc |-> "None", dmtype |-> get_dmtype_for_name("array")]
             ELSE [sc |-> "None", dmtype |-> 6]

\* "" is str(): no registry entry
get_structchar_for_dmtype(dm_type) ==
    LET i == First(dm_simple_names, LAMBDA e : e.key = dm_type) IN
    IF i # 0 THEN dm_simple_names[i].sc ELSE ""

\* the last entry of the table with the character, in place of the first
get_dmtype_for_structchar_last(struct_char) ==
    LET i == First(Reverse(dm_simple_names), LAMBDA e : e.sc = struct_char) IN
    IF i # 0 THEN Reverse(dm_simple_names)[i].key ELSE 0 - 1

get_dmtype_for_structchar(struct_char) ==
    LET i == First(dm_simple_names, LAMBDA e : e.sc = struct_char) IN
    IF i # 0 THEN dm_simple_names[i].key ELSE 0 - 1

----------------------------------------------------------------------------
(* Text encodings *)

\* str.encode("utf_16_le") as code units: [err, units]
RECURSIVE utf16_encode(_)
utf16_encode(cps) ==
    IF cps = <<>> THEN [err |-> "", units |-> <<>>]
    ELSE LET c == Head(cps)
             rest == utf16_encode(Tail(cps))
         IN  IF c >= 55296 /\ c <= 57343
             THEN [err |-> "UnicodeEncodeError", units |-> <<>>]
             ELSE IF rest.err # "" THEN rest
             ELSE IF c < 65536 THEN [err |-> "", units |-> <<c>> \o rest.units]
             ELSE [err |-> "",
                   units |-> << 55296 + (c - 65536) \div 1024,
                                56320 + ((c - 65536) % 1024) >> \o rest.units]

\* bytes(s, "ISO-8859-1"): [err, bytes]
str_to_iso8859_bytes(cps) ==
    IF \E i \in 1..Len(cps) : cps[i] > 255
    THEN [err |-> "UnicodeEncodeError", bytes |-> <<>>]
    ELSE [err |-> "", bytes |-> cps]

\* the bytes of little-endian 16-bit units
RECURSIVE UnitsToBytes(_)
UnitsToBytes(u) ==
    IF u = <<>> THEN <<>>
    ELSE <<Head(u) % 256, Head(u) \div 256>> \o UnitsToBytes(Tail(u))

----------------------------------------------------------------------------
(* struct.calcsize in native mode, as StructArray.bytelen calls it *)

\* native size and alignment of a format character (LP64, little-endian)
NativeSize(c) ==
    CASE c \in {"b", "B"} -> 1
      [] c \in {"h", "H"} -> 2
      [] c \in {"i", "I", "f"} -> 4
      [] c \in {"l", "L", "q", "Q", "d"} -> 8

AlignUp(n, a) == ((n + a - 1) \div a) * a

\* calcsize(" ".join(typecodes)): each field starts at a multiple of its own
\* size, and nothing is added after the last field. "" adds no field.
RECURSIVE calcsize_native(_, _)
calcsize_native(typecodes, off) ==
    IF typecodes = <<>> THEN off
    ELSE IF Head(typecodes) = "" THEN calcsize_native(Tail(typecodes), off)
    ELSE calcsize_native(Tail(typecodes),
                         AlignUp(off, NativeSize(Head(typecodes)))
                            + NativeSize(Head(typecodes)))

StructArray_bytelen(sa, num_elements) ==
    num_elements * calcsize_native(sa.typecodes, 0)

\* the length of the raw data taken for the number of elements
StructArray_num_elements_raw(sa) ==
    IF sa.raw_data.t = "none" THEN [err |-> "AssertionError", n |-> 0]
    ELSE [err |-> "", n |-> Len(sa.raw_data.v)]

\* StructArray.num_elements: [err, n]
StructArray_num_elements(sa) ==
    LET b == StructArray_bytelen(sa, 1) IN
    IF sa.raw_data.t = "none" THEN [err |-> "AssertionError", n |-> 0]
    ELSE IF b = 0 THEN [err |-> "ZeroDivisionError", n |-> 0]
    ELSE IF Len(sa.raw_data.v) % b # 0 THEN [err |-> "AssertionError", n |-> 0]
    ELSE [err |-> "", n |-> Len(sa.raw_data.v) \div b]

----------------------------------------------------------------------------
(* put_into_file and get_from_file on formats of several fields *)

Sum(seq) == LET RECURSIVE S(_, _)
                S(lo, hi) == IF lo > hi THEN 0
                             ELSE IF lo = hi THEN seq[lo]
                             ELSE S(lo, (lo + hi) \div 2)
                                  + S((lo + hi) \div 2 + 1, hi)
            IN  S(1, Len(seq))

RECURSIVE Concat(_)
Concat(seqs) ==
    IF seqs = <<>> THEN <<>>
    ELSE IF Len(seqs) = 1 THEN seqs[1]
    ELSE Concat(SubSeq(seqs, 1, Len(seqs) \div 2))
         \o Concat(SubSeq(seqs, Len(seqs) \div 2 + 1, Len(seqs)))

\* the range check of struct.pack on an unsigned ("B", "H", "L", "Q") or, for
\* the values the codec passes, signed ("b", "l") big-endian field
FitsBE(n, w) == n >= 0 /\ (w >= 4 \/ n < Pow2(8 * w))

\* put_into_file(f, "> ...", *args) for fields [n, w]: everything is packed
\* before anything is written
PutBE(s, fields) ==
    IF s.err # "" THEN s
    ELSE IF \E i \in 1..Len(fields) : ~FitsBE(fields[i].n, fields[i].w)
    THEN Raise(s, "struct.error")
    ELSE f_write(s, Concat([i \in 1..Len(fields) |-> BE(fields[i].n, fields[i].w)]))

Fld(n, w) == [n |-> n, w |-> w]

\* the offsets of consecutive fields
FieldStart(widths, i) == Sum(SubSeq(widths, 1, i - 1))

\* get_from_file(f, "> ...") for unsigned fields of the given widths:
\* [vals, s]; one read, and the assert on a short read
GetBE(s, widths) ==
    LET r == get_bytes(s, Sum(widths)) IN
    [vals |-> IF r.s.err # "" THEN [i \in 1..Len(widths) |-> 0]
              ELSE [i \in 1..Len(widths) |->
                       UBE(SubSeq(r.bytes, FieldStart(widths, i) + 1,
                                  FieldStart(widths, i) + widths[i]))],
     s |-> r.s]

\* a signed big-endian byte ("b")
SByte(n) == IF n >= 128 THEN n - 256 ELSE n

\* put_into_file(f, "<" + c, x)
PutLE(s, c, x) ==
    LET p == struct_pack_le(c, x) IN
    IF s.err # "" THEN s
    ELSE IF p.err # "" THEN Raise(s, p.err)
    ELSE f_write(s, p.bytes)

----------------------------------------------------------------------------
(* Scalar leaves *)

\* bool(x)
Truthy(x) ==
    CASE x.t = "none" -> FALSE
      [] x.t = "bool" -> x.v
      [] x.t = "int" -> x.v.mag # <<>>
      [] x.t = "float" -> ~(x.v \in {Zeros(8), <<128>> \o Zeros(7)})
      [] x.t \in {"str", "list", "tuple", "dict"} -> x.v # <<>>
      [] x.t = "array" -> x.v.items # <<>>
      [] OTHER -> TRUE

standard_dm_write(structchar, s, outdata) ==
    [hdr |-> 0, s |-> PutLE(s, structchar, outdata)]

\* standard_dm_read with the byte order of the size fields (">")
standard_dm_read_be(structchar, s) ==
    LET r == get_bytes(s, StdSize(structchar)) IN
    [val |-> IF r.s.err # "" THEN PyNone
             ELSE struct_unpack_le(structchar, Reverse(r.bytes)),
     hdr |-> 0, s |-> r.s]

standard_dm_read(structchar, s) ==
    LET r == get_bytes(s, StdSize(structchar)) IN
    [val |-> IF r.s.err # "" THEN PyNone ELSE struct_unpack_le(structchar, r.bytes),
     hdr |-> 0, s |-> r.s]

dm_write_bool(s, outdata) ==
    [hdr |-> 0, s |-> PutLE(s, "b", PyInt(IF Truthy(outdata) THEN 1 ELSE 0))]

dm_read_bool(s) ==
    LET r == get_bytes(s, 1) IN
    [val |-> IF r.s.err # "" THEN PyNone
             ELSE PyBool(struct_unpack_le("b", r.bytes) # PyInt(0)),
     hdr |-> 0, s |-> r.s]

----------------------------------------------------------------------------
(* Type 18, string *)

\* bytes.decode("utf_16_le"): [err, cps]
RECURSIVE utf16_decode_units(_)
utf16_decode_units(u) ==
    IF u = <<>> THEN [err |-> "", cps |-> <<>>]
    ELSE LET c == Head(u) IN
         IF c >= 55296 /\ c <= 56319
         THEN IF Len(u) >= 2 /\ u[2] >= 56320 /\ u[2] <= 57343
              THEN LET rest == utf16_decode_units(SubSeq(u, 3, Len(u))) IN
                   IF rest.err # "" THEN rest
                   ELSE [err |-> "",
                         cps |-> <<65536 + (c - 55296) * 1024 + (u[2] - 56320)>>
                                 \o rest.cps]
              ELSE [err |-> "UnicodeDecodeError", cps |-> <<>>]
         ELSE IF c >= 56320 /\ c <= 57343
         THEN [err |-> "UnicodeDecodeError", cps |-> <<>>]
         ELSE LET rest == utf16_decode_units(Tail(u)) IN
              IF rest.err # "" THEN rest
              ELSE [err |-> "", cps |-> <<c>> \o rest.cps]

BytesToUnits(b) == [i \in 1..(Len(b) \div 2) |-> b[2 * i - 1] + 256 * b[2 * i]]

utf16_le_decode(b) ==
    IF Len(b) % 2 = 1 THEN [err |-> "UnicodeDecodeError", cps |-> <<>>]
    ELSE utf16_decode_units(BytesToUnits(b))

dm_read_string(s) ==
    LET a == get_size(s)
        r == get_bytes(a.s, a.n)
        d == utf16_le_decode(r.bytes)
    IN  IF r.s.err # "" THEN [val |-> PyNone, hdr |-> 1, s |-> r.s]
        ELSE IF d.err # "" THEN [val |-> PyNone, hdr |-> 1, s |-> Raise(r.s, d.err)]
        ELSE [val |-> PyStr(d.cps), hdr |-> 1, s |-> r.s]

\* the encoded text is bytes when it reaches str_to_iso8859_bytes, and
\* bytes(<bytes>, "ISO-8859-1") is a TypeError
dm_write_string(s, outdata) ==
    IF s.err # "" THEN [hdr |-> 1, s |-> s]
    ELSE IF outdata.t # "str" THEN [hdr |-> 1, s |-> Raise(s, "AttributeError")]
    ELSE LET e == utf16_encode(outdata.v) IN
         IF e.err # "" THEN [hdr |-> 1, s |-> Raise(s, e.err)]
         ELSE [hdr |-> 1,
               s |-> Raise(put_size(s, 2 * Len(e.units)), "TypeError")]

----------------------------------------------------------------------------
(* Type 15, struct: the sub-header of field types *)

\* the loop of dm_read_struct_types: [types, s]
RECURSIVE ReadFieldTypes(_, _, _)
ReadFieldTypes(s, n, types) ==
    IF n = 0 \/ s.err # "" THEN [types |-> types, s |-> s]
    ELSE LET r == GetBE(s, <<SizeW(s.size_type), SizeW(s.size_type)>>) IN
         IF r.s.err # "" THEN [types |-> types, s |-> r.s]
         ELSE IF r.vals[1] # 0 \/ r.vals[2] = 15
         THEN [types |-> Append(types, r.vals[2]), s |-> Raise(r.s, "AssertionError")]
         ELSE ReadFieldTypes(r.s, n - 1, Append(types, r.vals[2]))

dm_read_struct_types(s) ==
    LET h == GetBE(s, <<SizeW(s.size_type), SizeW(s.size_type)>>)
        s1 == IF h.s.err = "" /\ h.vals[1] # 0
              THEN Raise(h.s, "AssertionError") ELSE h.s
        r == ReadFieldTypes(s1, h.vals[2], <<>>)
    IN  [types |-> r.types,
         hdr |-> IF r.s.err # "" THEN 0 ELSE 2 + 2 * h.vals[2],
         s |-> r.s]

RECURSIVE WriteFieldTypes(_, _)
WriteFieldTypes(s, outtypes) ==
    IF outtypes = <<>> \/ s.err # "" THEN s
    ELSE WriteFieldTypes(
            PutBE(s, <<Fld(0, SizeW(s.size_type)),
                       Fld(Head(outtypes), SizeW(s.size_type))>>),
            Tail(outtypes))

dm_write_struct_types(s, outtypes) ==
    [hdr |-> 2 + 2 * Len(outtypes),
     s |-> WriteFieldTypes(
              PutBE(s, <<Fld(0, SizeW(s.size_type)),
                         Fld(Len(outtypes), SizeW(s.size_type))>>),
              outtypes)]

----------------------------------------------------------------------------
(* StructArray and DataChunkWriter *)

\* f.read(num_elements * width) never returns more than the stream holds
ReadLen(s, num_elements, width) ==
    IF width = 0 THEN 0
    ELSE IF num_elements > Len(s.buf) THEN Len(s.buf) + 1
    ELSE num_elements * width

\* StructArray.from_file: [sa, s]; f.read may come back short
StructArray_from_file(sa, s, num_elements) ==
    LET r == f_read(s, ReadLen(s, num_elements, StructArray_bytelen(sa, 1))) IN
    [sa |-> [sa EXCEPT !.raw_data = PyBytes(r.bytes)], s |-> r.s]

StructArray_to_file(sa, s) ==
    IF s.err # "" THEN s
    ELSE IF sa.raw_data.t = "none" THEN Raise(s, "AssertionError")
    ELSE f_write(s, sa.raw_data.v)

StructArray_write(sa, s) ==
    LET outdmtypes == [i \in 1..Len(sa.typecodes) |->
                          get_dmtype_for_structchar(sa.typecodes[i])]
        s1 == put_size(s, get_dmtype_for_name("struct"))
        h == dm_write_struct_types(s1, outdmtypes)
        n == StructArray_num_elements(sa)
        s2 == IF h.s.err # "" THEN h.s
              ELSE IF n.err # "" THEN Raise(h.s, n.err)
              ELSE put_size(h.s, n.n)
    IN  [hdr |-> h.hdr + 2, s |-> StructArray_to_file(sa, s2)]

Prod(seq) == LET RECURSIVE P(_)
                 P(i) == IF i = 0 THEN 1 ELSE seq[i] * P(i - 1)
             IN  P(Len(seq))

\* the match statement on (dtype.char, itemsize)
DCW_typecode(d) ==
    CASE d.char = "l" /\ d.itemsize = 4 -> "i"
      [] d.char = "l" /\ d.itemsize = 8 -> "q"
      [] d.char = "L" /\ d.itemsize = 4 -> "I"
      [] d.char = "L" /\ d.itemsize = 8 -> "Q"
      [] OTHER -> d.char

\* the search for the chunk: how many trailing dimensions one write covers,
\* and how many elements that is
RECURSIVE DCW_chunk(_, _, _, _)
DCW_chunk(shape, i, index_count, chunk_size) ==
    IF i = 0 THEN [index_count |-> index_count, chunk_size |-> chunk_size]
    ELSE IF chunk_size * shape[i] > ChunkLimit
    THEN [index_count |-> index_count, chunk_size |-> chunk_size]
    ELSE DCW_chunk(shape, i - 1, index_count + 1, chunk_size * shape[i])

\* index tuples with the first index running fastest
RECURSIVE ndindex_first_fastest(_)
ndindex_first_fastest(dims) ==
    IF dims = <<>> THEN << <<>> >>
    ELSE LET rest == ndindex_first_fastest(Tail(dims)) IN
         Concat([j \in 1..Len(rest) |->
                    [i \in 1..Head(dims) |-> <<i - 1>> \o rest[j]]])

\* numpy.ndindex(*dims): the index tuples (from 0) in lexicographic order
RECURSIVE ndindex(_)
ndindex(dims) ==
    IF dims = <<>> THEN << <<>> >>
    ELSE LET rest == ndindex(Tail(dims)) IN
         Concat([i \in 1..Head(dims) |->
                    [j \in 1..Len(rest) |-> <<i - 1>> \o rest[j]]])

\* the items of data[index], in C order
DCW_block(d, index) ==
    LET off == Sum([j \in 1..Len(index) |->
                       index[j] * Prod(SubSeq(d.shape, j + 1, Len(d.shape)))])
        n == Prod(SubSeq(d.shape, Len(index) + 1, Len(d.shape)))
    IN  SubSeq(d.items, off + 1, off + n)

\* x.tobytes() for a block of items of one type
tobytes(typecode, items) ==
    Concat([i \in 1..Len(items) |-> struct_pack_le(typecode, items[i]).bytes])

\* the loop of writes, one per index
RECURSIVE DCW_write_blocks(_, _, _, _)
DCW_write_blocks(s, d, typecode, indexes) ==
    IF indexes = <<>> \/ s.err # "" THEN s
    ELSE IF Len(indexes) = 1
    THEN f_write(s, tobytes(typecode, DCW_block(d, indexes[1])))
    ELSE DCW_write_blocks(
            DCW_write_blocks(s, d, typecode,
                             SubSeq(indexes, 1, Len(indexes) \div 2)),
            d, typecode,
            SubSeq(indexes, Len(indexes) \div 2 + 1, Len(indexes)))

DataChunkWriter_write(d, s) ==
    LET data_typecode == DCW_typecode(d)
        dtype == get_dmtype_for_structchar(data_typecode)
        c == DCW_chunk(d.shape, Len(d.shape), 0, 1)
        lead == SubSeq(d.shape, 1, Len(d.shape) - c.index_count)
    IN  IF s.err # "" THEN [hdr |-> 2, s |-> s]
        ELSE IF dtype < 0 THEN [hdr |-> 2, s |-> Raise(s, "AssertionError")]
        ELSE [hdr |-> 2,
              s |-> DCW_write_blocks(
                       put_size(put_size(s, dtype),
                                (Prod(d.shape) * d.itemsize)
                                    \div NativeSize(data_typecode)),
                       d, data_typecode, ndindex(lead))]

----------------------------------------------------------------------------
(* Type 20, array, and the dispatch tables dm_write_types and dm_read_types *)

\* array.fromfile(f, alen) into an empty array of the given typecode:
\* [items, s]
array_fromfile(typecode, s, alen) ==
    LET w == NativeSize(typecode)
        r == f_read(s, ReadLen(s, alen, w))
        whole == alen <= Len(s.buf) /\ Len(r.bytes) = alen * w
    IN  IF s.err # "" THEN [items |-> <<>>, s |-> s]
        ELSE IF ~whole
        THEN [items |-> <<>>,
              s |-> Raise(r.s, IF Len(r.bytes) % w # 0 THEN "ValueError"
                               ELSE "EOFError")]
        ELSE [items |-> [i \in 1..alen |->
                            struct_unpack_le(typecode,
                                SubSeq(r.bytes, (i - 1) * w + 1, i * w))],
              s |-> r.s]

\* what a reader returns when the call has raised
ReadFail(s) == [val |-> PyNone, hdr |-> 0, s |-> s]

\* the struct branch of dm_read_array, after the field types (st), the
\* element count (n) and the raw data (r)
dm_read_array_struct_data(st, r) ==
    [val |-> [t |-> "structarray", v |-> r.sa], hdr |-> 2 + st.hdr, s |-> r.s]

dm_read_array_struct_count(st, n) ==
    IF n.s.err # "" THEN ReadFail(n.s)
    ELSE dm_read_array_struct_data(st, StructArray_from_file(
            [typecodes |-> [i \in 1..Len(st.types) |->
                               get_structchar_for_dmtype(st.types[i])],
             raw_data |-> PyNone],
            n.s, n.n))

dm_read_array_struct(st) == dm_read_array_struct_count(st, get_size(st.s))

\* the branch of the simple element types, after the count (n) and the
\* items (r)
dm_read_array_items(struct_char, r) ==
    IF r.s.err # "" THEN ReadFail(r.s)
    ELSE [val |-> PyArray(struct_char, r.items), hdr |-> 2, s |-> r.s]

dm_read_array_count(struct_char, n) ==
    dm_read_array_items(struct_char, array_fromfile(struct_char, n.s, n.n))

dm_read_array_simple(struct_char, s) ==
    IF struct_char = "" THEN ReadFail(Raise(s, "TypeError"))
    ELSE dm_read_array_count(struct_char, get_size(s))

dm_read_array_dtype(a) ==
    IF a.s.err # "" THEN ReadFail(a.s)
    ELSE IF a.n = get_dmtype_for_name("struct")
    THEN dm_read_array_struct(dm_read_struct_types(a.s))
    ELSE dm_read_array_simple(get_structchar_for_dmtype(a.n), a.s)

dm_read_array(s) == dm_read_array_dtype(get_size(s))

dm_write_array(s, outdata) ==
    IF s.err # "" THEN [hdr |-> 0, s |-> s]
    ELSE IF outdata.t = "structarray" THEN StructArray_write(outdata.v, s)
    ELSE IF outdata.t = "dcw" THEN DataChunkWriter_write(outdata.v, s)
    ELSE IF outdata.t = "str"
    THEN LET e == utf16_encode(outdata.v)
             dtype == get_dmtype_for_structchar("H")
         IN  IF e.err # "" THEN [hdr |-> 0, s |-> Raise(s, e.err)]
             ELSE IF dtype < 0 THEN [hdr |-> 0, s |-> Raise(s, "AssertionError")]
             ELSE [hdr |-> 2,
                   s |-> f_write(put_size(put_size(s, dtype),
                                          (2 * Len(e.units)) \div NativeSize("H")),
                                 UnitsToBytes(e.units))]
    ELSE [hdr |-> 0, s |-> s]

RECURSIVE dm_write_types(_, _, _)
RECURSIVE dm_read_types(_, _)

\* the loop of dm_write_struct over zip(write_types, outdata)
RECURSIVE WriteFields(_, _, _)
WriteFields(s, write_types, items) ==
    IF write_types = <<>> \/ s.err # "" THEN s
    ELSE WriteFields(dm_write_types(Head(write_types), s, Head(items)).s,
                     Tail(write_types), Tail(items))

\* what iterating over a value yields
IterItems(x) ==
    CASE x.t \in {"tuple", "list"} -> x.v
      [] x.t = "str" -> [i \in 1..Len(x.v) |-> PyStr(<<x.v[i]>>)]
      [] x.t = "array" -> x.v.items
      [] OTHER -> <<>>

\* dm_write_struct once the items are flattened and their types found
dm_write_struct_fields(h, write_types, flat) ==
    [hdr |-> h.hdr, s |-> WriteFields(h.s, write_types, flat)]

dm_write_struct_typed(s, flat, write_types) ==
    dm_write_struct_fields(dm_write_struct_types(s, write_types),
                           write_types, flat)

dm_write_struct_flat(s, flat) ==
    dm_write_struct_typed(s, flat,
        [i \in 1..Len(flat) |->
            get_structdmtypes_for_python_typeorobject(flat[i]).dmtype])

dm_write_struct(s, outdata) ==
    IF s.err # "" THEN [hdr |-> 0, s |-> s]
    ELSE IF outdata.t \notin {"tuple", "list", "str", "array"}
    THEN [hdr |-> 0, s |-> Raise(s, "TypeError")]
    ELSE dm_write_struct_flat(s,
            IF /\ outdata.t = "tuple"
               /\ Len(outdata.v) > 1
               /\ \A i \in 1..Len(outdata.v) :
                     outdata.v[i].t \in {"tuple", "list"}
            THEN Concat([i \in 1..Len(outdata.v) |-> outdata.v[i].v])
            ELSE IterItems(outdata))

\* the loop of dm_read_struct: [items, s]
RECURSIVE ReadFields(_, _, _)
ReadFields_step(r, types, items) ==
    ReadFields(r.s, Tail(types), Append(items, r.val))

ReadFields(s, types, items) ==
    IF types = <<>> \/ s.err # "" THEN [items |-> items, s |-> s]
    ELSE ReadFields_step(dm_read_types(Head(types), s), types, items)

\* the fields as read, whatever their number
dm_read_struct_fold_flat(ret) == PyTuple(ret)

\* a 4-field struct comes back as two pairs
dm_read_struct_fold(ret) ==
    IF Len(ret) = 4
    THEN PyTuple(<< PyTuple(<<ret[1], ret[2]>>), PyTuple(<<ret[3], ret[4]>>) >>)
    ELSE PyTuple(ret)

dm_read_struct_done(st, r) ==
    IF r.s.err # "" THEN ReadFail(r.s)
    ELSE [val |-> dm_read_struct_fold(r.items), hdr |-> st.hdr, s |-> r.s]

dm_read_struct_fields(st) ==
    dm_read_struct_done(st, ReadFields(st.s, st.types, <<>>))

dm_read_struct(s) == dm_read_struct_fields(dm_read_struct_types(s))

\* dm_write_types[t](f, outdata); a missing key is a KeyError
dm_write_types(t, s, outdata) ==
    IF s.err # "" THEN [hdr |-> 0, s |-> s]
    ELSE IF t = get_dmtype_for_name("bool") THEN dm_write_bool(s, outdata)
    ELSE IF t \in SimpleIds
    THEN standard_dm_write(get_structchar_for_dmtype(t), s, outdata)
    ELSE IF t = get_dmtype_for_name("string") THEN dm_write_string(s, outdata)
    ELSE IF t = get_dmtype_for_name("struct") THEN dm_write_struct(s, outdata)
    ELSE IF t = get_dmtype_for_name("array") THEN dm_write_array(s, outdata)
    ELSE [hdr |-> 0, s |-> Raise(s, "KeyError")]

\* dm_read_types[t](f)
dm_read_types(t, s) ==
    IF s.err # "" THEN [val |-> PyNone, hdr |-> 0, s |-> s]
    ELSE IF t = get_dmtype_for_name("bool") THEN dm_read_bool(s)
    ELSE IF t \in SimpleIds THEN standard_dm_read(get_structchar_for_dmtype(t), s)
    ELSE IF t = get_dmtype_for_name("string") THEN dm_read_string(s)
    ELSE IF t = get_dmtype_for_name("struct") THEN dm_read_struct(s)
    ELSE IF t = get_dmtype_for_name("array") THEN dm_read_array(s)
    ELSE [val |-> PyNone, hdr |-> 0, s |-> Raise(s, "KeyError")]

----------------------------------------------------------------------------
(* Leaves: dm_write_tag_data and dm_read_tag_data *)

Delim == <<37, 37, 37, 37>>   \* "%%%%"

\* dm_write_tag_data with header as the header length
dm_write_tag_data_patch_plain(version_, pos, h) ==
    f_seek_end(put_size(f_seek(h.s, IF version_ = 4 THEN pos - 16 ELSE pos - 8),
                        h.hdr))

\* seek back to the header length, write it, seek to the end
dm_write_tag_data_patch(version_, pos, h) ==
    f_seek_end(put_size(f_seek(h.s, IF version_ = 4 THEN pos - 16 ELSE pos - 8),
                        h.hdr + 1))

dm_write_tag_data_payload(data_type, s1, value) ==
    dm_write_tag_data_patch(s1.version, s1.pos,
                            dm_write_types(data_type, s1, value))

dm_write_tag_data_typed(s, value, data_type) ==
    IF data_type = 0 THEN Raise(s, "Exception")
    ELSE dm_write_tag_data_payload(
            data_type,
            PutBE(f_write(s, Delim),
                  <<Fld(0, SizeW(s.size_type)),
                    Fld(data_type, SizeW(s.size_type))>>),
            value)

dm_write_tag_data(s, value) ==
    IF s.err # "" THEN s
    ELSE dm_write_tag_data_typed(
            s, value, get_structdmtypes_for_python_typeorobject(value).dmtype)

dm_read_tag_data_done(header_len, r) ==
    IF r.s.err # "" THEN [val |-> PyNone, s |-> r.s]
    ELSE IF r.hdr + 1 # header_len
    THEN [val |-> PyNone, s |-> Raise(r.s, "AssertionError")]
    ELSE [val |-> r.val, s |-> r.s]

dm_read_tag_data_head(d, W) ==
    IF d.s.err # "" THEN [val |-> PyNone, s |-> d.s]
    ELSE IF SubSeq(d.bytes, 1, 4) # Delim
    THEN [val |-> PyNone, s |-> Raise(d.s, "AssertionError")]
    ELSE dm_read_tag_data_done(
            UBE(SubSeq(d.bytes, 5, 4 + W)),
            dm_read_types(UBE(SubSeq(d.bytes, 5 + W, 4 + 2 * W)), d.s))

dm_read_tag_data(s) ==
    dm_read_tag_data_head(get_bytes(s, 4 + 2 * SizeW(s.size_type)),
                          SizeW(s.size_type))

----------------------------------------------------------------------------
(* Groups: dm_write_tag_root, dm_write_tag_entry and their readers *)

RECURSIVE dm_write_tag_root(_, _)
RECURSIVE dm_read_tag_root(_)

\* dm4: the size field with end - start - 16 in it
dm_write_tag_entry_patch_wide(start, s4) ==
    IF s4.err # "" THEN s4
    ELSE IF s4.version = 4
    THEN f_seek_end(put_size(f_seek(s4, start), s4.pos - start - 16))
    ELSE s4

\* dm4: seek back to the entry's size field, write it, seek to the end
dm_write_tag_entry_patch(start, s4) ==
    IF s4.err # "" THEN s4
    ELSE IF s4.version = 4
    THEN f_seek_end(put_size(f_seek(s4, start), s4.pos - start - 8))
    ELSE s4

\* the stream after the entry's name
dm_write_tag_entry_name(s1, named, nb) ==
    IF ~named \/ s1.err # "" THEN s1
    ELSE IF nb.err # "" THEN Raise(s1, nb.err)
    ELSE f_write(s1, nb.bytes)

\* the stream after the entry's type, name length and name
dm_write_tag_entry_typed(s, outname, dtype) ==
    dm_write_tag_entry_name(
        PutBE(s, <<Fld(dtype, 1),
                   Fld(IF Truthy(outname) THEN Len(outname.v) ELSE 0, 2)>>),
        Truthy(outname),
        IF Truthy(outname) THEN str_to_iso8859_bytes(outname.v)
        ELSE [err |-> "", bytes |-> <<>>])

\* the stream after the dm4 size placeholder
dm_write_tag_entry_sized(s2) ==
    IF s2.version = 4 THEN put_size(s2, 0) ELSE s2

dm_write_tag_entry(s, outdata, outname) ==
    dm_write_tag_entry_patch(
        dm_write_tag_entry_typed(
            s, outname,
            IF outdata.t \in {"dict", "list"} THEN TAG_TYPE_ARRAY
            ELSE TAG_TYPE_DATA).pos,
        IF outdata.t \in {"dict", "list"}
        THEN dm_write_tag_root(
                dm_write_tag_entry_sized(dm_write_tag_entry_typed(
                    s, outname, TAG_TYPE_ARRAY)), outdata)
        ELSE dm_write_tag_data(
                dm_write_tag_entry_sized(dm_write_tag_entry_typed(
                    s, outname, TAG_TYPE_DATA)), outdata))

\* an entry dm_write_tag_root writes and counts
ListWritten(v) == v.t # "none"
DictWritten(k, v) == k.t # "none" /\ Len(k.v) > 0 /\ v.t # "none"

Count(seq, P(_)) == Cardinality({i \in 1..Len(seq) : P(seq[i])})

\* the loops of dm_write_tag_root, the entries written in order, halves at a
\* time
RECURSIVE WriteListEntries(_, _)
WriteListEntries(s, items) ==
    IF Len(items) = 1 /\ s.err = "" /\ ListWritten(items[1])
    THEN dm_write_tag_entry(s, items[1], PyNone)
    ELSE IF Len(items) > 1 /\ s.err = ""
    THEN WriteListEntries(
            WriteListEntries(s, SubSeq(items, 1, Len(items) \div 2)),
            SubSeq(items, Len(items) \div 2 + 1, Len(items)))
    ELSE s

RECURSIVE WriteDictEntries(_, _)
WriteDictEntries(s, pairs) ==
    IF Len(pairs) = 1 /\ s.err = "" /\ DictWritten(pairs[1][1], pairs[1][2])
    THEN dm_write_tag_entry(s, pairs[1][2], pairs[1][1])
    ELSE IF Len(pairs) > 1 /\ s.err = ""
    THEN WriteDictEntries(
            WriteDictEntries(s, SubSeq(pairs, 1, Len(pairs) \div 2)),
            SubSeq(pairs, Len(pairs) \div 2 + 1, Len(pairs)))
    ELSE s

\* dm_write_tag_root with the number of all entries as num_tags
dm_write_tag_root_head_all(s, outdata) ==
    PutBE(s, <<Fld(IF outdata.t = "list" THEN 0 ELSE 1, 1), Fld(0, 1),
               Fld(Len(outdata.v), SizeW(s.size_type))>>)

\* the group's header: kind, open flag, number of entries
dm_write_tag_root_head(s, outdata) ==
    PutBE(s, <<Fld(IF outdata.t = "list" THEN 0 ELSE 1, 1),
               Fld(0, 1),
               Fld(IF outdata.t = "list"
                   THEN Count(outdata.v, ListWritten)
                   ELSE Count(outdata.v, LAMBDA p : DictWritten(p[1], p[2])),
                   SizeW(s.size_type))>>)

\* a value that is neither list nor dict has no keys()
dm_write_tag_root(s, outdata) ==
    IF outdata.t = "dict" /\ s.err = ""
    THEN WriteDictEntries(dm_write_tag_root_head(s, outdata), outdata.v)
    ELSE IF outdata.t = "list" /\ s.err = ""
    THEN WriteListEntries(dm_write_tag_root_head(s, outdata), outdata.v)
    ELSE Raise(s, "AttributeError")

\* re.match(".*Name", name): "Name" somewhere in the name, with no newline
\* before it
MatchesName(cps) ==
    \E i \in 1..(Len(cps) - 3) :
        /\ SubSeq(cps, i, i + 3) = <<78, 97, 109, 101>>
        /\ \A j \in 1..(i - 1) : cps[j] # 10

\* hasattr(arr, "__len__") and len(arr) > 0
HasLen(arr) ==
    CASE arr.t \in {"tuple", "str"} -> arr.v # <<>>
      [] arr.t = "array" -> arr.v.items # <<>>
      [] OTHER -> FALSE

\* "".join(chr(x) for x in arr): [err, cps]
ChrFails(x) ==
    \/ ~IsInstanceInt(x)
    \/ AsInt(x).v.neg
    \/ ~IntLt(AsInt(x), PyIntB(FALSE, <<0, 0, 17>>))

JoinChr(items) ==
    LET bad == First(items, ChrFails) IN
    IF bad # 0
    THEN [err |-> IF IsInstanceInt(items[bad]) THEN "ValueError" ELSE "TypeError",
          cps |-> <<>>]
    ELSE [err |-> "", cps |-> [i \in 1..Len(items) |-> MagNat(AsInt(items[i]).v.mag)]]

\* "".join(arr): [err, cps]
JoinStr(items) ==
    IF \E i \in 1..Len(items) : items[i].t # "str"
    THEN [err |-> "TypeError", cps |-> <<>>]
    ELSE [err |-> "", cps |-> Concat([i \in 1..Len(items) |-> items[i].v])]

\* the treat_as_string_names step of dm_read_tag_entry: [err, val]
NameCoerce_joined(j) == [err |-> j.err, val |-> PyStr(j.cps)]

NameCoerce_items(arr, items) ==
    IF IsInstanceInt(items[1]) THEN NameCoerce_joined(JoinChr(items))
    ELSE IF items[1].t = "str" THEN NameCoerce_joined(JoinStr(items))
    ELSE [err |-> "", val |-> arr]

\* the treat_as_string_names step skipped
NameCoerce_skipped(name, arr) == [err |-> "", val |-> arr]

NameCoerce(name, arr) ==
    IF ~(Truthy(name) /\ HasLen(arr) /\ MatchesName(name.v))
    THEN [err |-> "", val |-> arr]
    ELSE NameCoerce_items(arr, IterItems(arr))

\* [name, val, s]
dm_read_tag_entry_coerced(name, r, c) ==
    IF r.s.err # "" THEN [name |-> name, val |-> PyNone, s |-> r.s]
    ELSE IF c.err # ""
    THEN [name |-> name, val |-> PyNone, s |-> Raise(r.s, c.err)]
    ELSE [name |-> name, val |-> c.val, s |-> r.s]

dm_read_tag_entry_leaf(name, r) ==
    dm_read_tag_entry_coerced(
        name, r,
        IF r.s.err # "" THEN [err |-> "", val |-> PyNone]
        ELSE NameCoerce(name, r.val))

\* dtype and name_len: [vals, s]
dm_read_tag_entry_head(s) == GetBE(s, <<1, 2>>)

\* the name's bytes: [bytes, s]
dm_read_tag_entry_named(h) ==
    IF h.vals[2] # 0 THEN get_bytes(h.s, h.vals[2])
    ELSE [bytes |-> <<>>, s |-> h.s]

\* name
dm_read_tag_entry_name(h) ==
    IF h.vals[2] # 0 THEN PyStr(dm_read_tag_entry_named(h).bytes) ELSE PyNone

\* the stream after the name and the dm4 size
dm_read_tag_entry_sized(nm) ==
    IF nm.s.version = 4 THEN get_size(nm.s).s ELSE nm.s

dm_read_tag_entry_body(h) ==
    dm_read_tag_entry_sized(dm_read_tag_entry_named(h))

\* [name, val, s]
dm_read_tag_entry(s) ==
    IF /\ SByte(dm_read_tag_entry_head(s).vals[1]) = TAG_TYPE_ARRAY
       /\ dm_read_tag_entry_body(dm_read_tag_entry_head(s)).err = ""
    THEN [name |-> dm_read_tag_entry_name(dm_read_tag_entry_head(s))]
         @@ dm_read_tag_root(dm_read_tag_entry_body(dm_read_tag_entry_head(s)))
    ELSE IF dm_read_tag_entry_body(dm_read_tag_entry_head(s)).err # ""
    THEN [name |-> PyNone, val |-> PyNone,
          s |-> dm_read_tag_entry_body(dm_read_tag_entry_head(s))]
    ELSE IF SByte(dm_read_tag_entry_head(s).vals[1]) = TAG_TYPE_DATA
    THEN dm_read_tag_entry_leaf(
            dm_read_tag_entry_name(dm_read_tag_entry_head(s)),
            dm_read_tag_data(dm_read_tag_entry_body(dm_read_tag_entry_head(s))))
    ELSE [name |-> dm_read_tag_entry_name(dm_read_tag_entry_head(s)),
          val |-> PyNone,
          s |-> Raise(dm_read_tag_entry_body(dm_read_tag_entry_head(s)),
                      "Exception")]

\* new_obj[name] = data on the pairs of a dict
DictSet(pairs, k, v) ==
    IF \E i \in 1..Len(pairs) : pairs[i][1] = k
    THEN [i \in 1..Len(pairs) |-> IF pairs[i][1] = k THEN <<k, v>> ELSE pairs[i]]
    ELSE Append(pairs, <<k, v>>)

\* [val, s]
\* the entries as a list, whatever the group's kind
dm_read_tag_root_done_list(is_dict, r) ==
    IF r.s.err # "" THEN [val |-> PyNone, s |-> r.s]
    ELSE [val |-> PyList(r.items), s |-> r.s]

\* new_obj with the entries read so far, or nothing once something is raised
dm_read_tag_root_done(is_dict, r) ==
    IF r.s.err # "" THEN [val |-> PyNone, s |-> r.s]
    ELSE [val |-> IF is_dict THEN PyDict(r.items) ELSE PyList(r.items),
          s |-> r.s]

\* one pass of the loops of dm_read_tag_root without the asserts on the name
ReadEntries_step_unchecked(r, is_dict, e) ==
    IF e.s.err # "" THEN [val |-> PyNone, s |-> e.s]
    ELSE dm_read_tag_root_done(
            is_dict,
            [items |-> IF is_dict THEN DictSet(r.val.v, e.name, e.val)
                       ELSE Append(r.val.v, e.val),
             s |-> e.s])

\* one pass of the loops of dm_read_tag_root: r is new_obj and the stream
\* before the entry e
ReadEntries_step(r, is_dict, e) ==
    IF e.s.err # "" THEN [val |-> PyNone, s |-> e.s]
    ELSE IF is_dict /\ e.name.t = "none"
    THEN [val |-> PyNone, s |-> Raise(e.s, "AssertionError")]
    ELSE IF ~is_dict /\ e.name.t # "none"
    THEN [val |-> PyNone, s |-> Raise(e.s, "AssertionError")]
    ELSE dm_read_tag_root_done(
            is_dict,
            [items |-> IF is_dict THEN DictSet(r.val.v, e.name, e.val)
                       ELSE Append(r.val.v, e.val),
             s |-> e.s])

\* the loops of dm_read_tag_root, n entries read in order, halves at a time
RECURSIVE ReadEntries(_, _, _)
ReadEntries(r, is_dict, n) ==
    IF r.s.err # "" \/ n = 0 THEN r
    ELSE IF n = 1 THEN ReadEntries_step(r, is_dict, dm_read_tag_entry(r.s))
    ELSE ReadEntries(ReadEntries(r, is_dict, n \div 2), is_dict, n - n \div 2)

\* is_dict, _open and num_tags: [vals, s]
dm_read_tag_root_head(s) == GetBE(s, <<1, 1, SizeW(s.size_type)>>)

dm_read_tag_root(s) ==
    ReadEntries(
        dm_read_tag_root_done(dm_read_tag_root_head(s).vals[1] # 0,
                              [items |-> <<>>, s |-> dm_read_tag_root_head(s).s]),
        dm_read_tag_root_head(s).vals[1] # 0,
        dm_read_tag_root_head(s).vals[3])

----------------------------------------------------------------------------
(* The caller: one writer call on a stream, then the reader on what it wrote *)

\* the streams the caller hands to the writer: empty, or holding earlier
\* output with the position at its end
Streams == { [buf |-> <<>>, pos |-> 0], [buf |-> <<7, 7, 7>>, pos |-> 3] }

\* version and size_type as dm_read_header and dm_write_header leave them
Globals == { [version |-> 3, size_type |-> "L"], [version |-> 4, size_type |-> "Q"] }

NoWret == [err |-> "", hdr |-> 0, start |-> 0, end |-> 0]
NoRret == [err |-> "", val |-> PyNone, hdr |-> 0, pos |-> 0]

\* the state after the imports, before the caller's first call
InitCaller(fn) ==
    /\ \E g \in Globals : version = g.version /\ size_type = g.size_type
    /\ f \in Streams
    /\ pc = "start"
    /\ func = fn
    /\ wret = NoWret
    /\ rret = NoRret

\* header = write_func(s, data), h being [hdr, s]
Written(h) ==
    /\ f' = [buf |-> h.s.buf, pos |-> h.s.pos]
    /\ version' = h.s.version
    /\ size_type' = h.s.size_type
    /\ wret' = [err |-> h.s.err, hdr |-> h.hdr, start |-> f.pos, end |-> h.s.pos]
    /\ pc' = "written"
    /\ UNCHANGED <<func, tid, data, rret>>

\* s.seek(start); r, hy = read_func(s), r being [val, hdr, s]
WasRead(r) ==
    /\ f' = [buf |-> r.s.buf, pos |-> r.s.pos]
    /\ version' = r.s.version
    /\ size_type' = r.s.size_type
    /\ rret' = [err |-> r.s.err, val |-> r.val, hdr |-> r.hdr, pos |-> r.s.pos]
    /\ pc' = "done"
    /\ UNCHANGED <<func, tid, data, wret>>

\* the stream as the reader finds it
Rewound == f_seek(Ctx(f, version, size_type), wret.start)

----------------------------------------------------------------------------
(* Scalars: dm_write_types[t] and dm_read_types[t] for the simple ids *)

Ints ==
    { PyInt(0), PyInt(1), PyInt(0 - 1), PyInt(45), PyInt(127), PyInt(128),
      PyInt(0 - 128), PyInt(0 - 129), PyInt(255), PyInt(256),
      PyInt(32767), PyInt(32768), PyInt(0 - 32768), PyInt(0 - 32769),
      PyInt(65535), PyInt(65536), PyInt(1073741824),
      PyIntB(FALSE, <<254, 255, 255, 127>>),             \* 2**31 - 2
      PyIntB(FALSE, <<255, 255, 255, 127>>),             \* 2**31 - 1
      PyIntB(FALSE, <<0, 0, 0, 128>>),                   \* 2**31
      PyIntB(TRUE, <<255, 255, 255, 127>>),              \* -2**31 + 1
      PyIntB(TRUE, <<0, 0, 0, 128>>),                    \* -2**31
      PyIntB(TRUE, <<1, 0, 0, 128>>),                    \* -2**31 - 1
      PyIntB(FALSE, <<255, 255, 255, 255>>),             \* 2**32 - 1
      PyIntB(FALSE, <<0, 0, 0, 0, 1>>),                  \* 2**32
      PyIntB(FALSE, <<255, 15, 165, 212, 232>>),         \* 999999999999
      PyIntB(FALSE, <<255, 255, 255, 255, 255, 255, 255, 127>>),  \* 2**63 - 1
      PyIntB(FALSE, <<0, 0, 0, 0, 0, 0, 0, 128>>),       \* 2**63
      PyIntB(TRUE, <<0, 0, 0, 0, 0, 0, 0, 128>>),        \* -2**63
      PyIntB(TRUE, <<1, 0, 0, 0, 0, 0, 0, 128>>),        \* -2**63 - 1
      PyIntB(FALSE, <<255, 255, 255, 255, 255, 255, 255, 255>>),  \* 2**64 - 1
      PyIntB(FALSE, <<0, 0, 0, 0, 0, 0, 0, 0, 1>>) }     \* 2**64

Floats ==
    { PyFloat(Zeros(8)),                                 \* 0.0
      PyFloat(<<128>> \o Zeros(7)),                      \* -0.0
      PyFloat(<<63, 248, 0, 0, 0, 0, 0, 0>>),            \* 1.5
      PyFloat(<<192, 2, 0, 0, 0, 0, 0, 0>>),             \* -2.25
      PyFloat(<<64, 76, 89, 153, 153, 153, 153, 154>>),  \* 56.7
      PyFloat(<<64, 65, 71, 174, 20, 122, 225, 72>>),    \* 34.56
      PyFloat(<<126, 55, 228, 60, 136, 0, 117, 156>>),   \* 1e300
      PyFloat(<<71, 239, 255, 255, 224, 0, 0, 0>>),      \* the largest single
      PyFloat(<<71, 239, 255, 255, 240, 0, 0, 0>>),      \* rounds to 2**128
      PyFloat(<<56, 16, 0, 0, 0, 0, 0, 0>>),             \* 2**-126
      PyFloat(<<54, 184, 0, 0, 0, 0, 0, 0>>),            \* 3 * 2**-149
      PyFloat(<<54, 160, 0, 0, 0, 0, 0, 0>>),            \* 2**-149
      PyFloat(<<54, 144, 0, 0, 0, 0, 0, 0>>),            \* 2**-150
      PyFloat(<<127, 240, 0, 0, 0, 0, 0, 0>>),           \* inf
      PyFloat(<<255, 240, 0, 0, 0, 0, 0, 0>>),           \* -inf
      PyFloat(<<127, 248, 0, 0, 0, 0, 0, 0>>) }          \* nan

Bools == { PyBool(TRUE), PyBool(FALSE) }

Scalars == Ints \cup Floats \cup Bools

InitSimple ==
    /\ InitCaller("simple")
    /\ tid \in SimpleIds
    /\ data \in Scalars \cup {PyNone}

WriteSimple ==
    /\ pc = "start" /\ func = "simple"
    /\ Written(dm_write_types(tid, Ctx(f, version, size_type), data))

ReadSimple ==
    /\ pc = "written" /\ func = "simple" /\ wret.err = ""
    /\ WasRead(dm_read_types(tid, Rewound))

NextSimple == WriteSimple \/ ReadSimple

SpecSimple == InitSimple /\ [][NextSimple]_vars

----------------------------------------------------------------------------
(* Equality of values, as == and the tests' is_equal decide it.  A float is  *)
(* equal to a float of the same bits (so a NaN counts as itself) and 0.0 to  *)
(* -0.0; an array read back is compared with the DataChunkWriter written by  *)
(* numpy.array_equal: same shape, equal elements.                            *)

IsZeroF(b) == b \in {Zeros(8), <<128>> \o Zeros(7)}

FloatEq(a, b) == a = b \/ (IsZeroF(a) /\ IsZeroF(b))

\* an int that float() converts without rounding
ExactInt(x) ==
    LET bits == MagBits(x.v.mag) IN \A k \in 54..Len(bits) : bits[k] = 0

NumEq(a, b) ==
    IF IsInstanceInt(a) /\ IsInstanceInt(b) THEN AsInt(a).v = AsInt(b).v
    ELSE IF a.t = "float" /\ b.t = "float" THEN FloatEq(a.v, b.v)
    ELSE IF IsInstanceInt(a) /\ b.t = "float"
    THEN ExactInt(AsInt(a)) /\ IntToF64(AsInt(a)) # <<>>
         /\ FloatEq(IntToF64(AsInt(a)), b.v)
    ELSE IF a.t = "float" /\ IsInstanceInt(b)
    THEN ExactInt(AsInt(b)) /\ IntToF64(AsInt(b)) # <<>>
         /\ FloatEq(a.v, IntToF64(AsInt(b)))
    ELSE FALSE

IsNum(x) == x.t \in {"int", "bool", "float"}

ItemsEq(a, b) ==
    Len(a) = Len(b) /\ \A i \in 1..Len(a) : NumEq(a[i], b[i])

RECURSIVE PyEq(_, _)
PyEq(a, b) ==
    IF IsNum(a) /\ IsNum(b) THEN NumEq(a, b)
    ELSE IF a.t = "array" /\ b.t = "dcw"
    THEN b.v.shape = <<Len(a.v.items)>> /\ ItemsEq(a.v.items, b.v.items)
    ELSE IF a.t = "dcw" /\ b.t = "array"
    THEN a.v.shape = <<Len(b.v.items)>> /\ ItemsEq(a.v.items, b.v.items)
    ELSE IF a.t # b.t THEN FALSE
    ELSE CASE a.t = "none" -> TRUE
           [] a.t \in {"str", "bytes"} -> a.v = b.v
           [] a.t \in {"list", "tuple"} ->
                /\ Len(a.v) = Len(b.v)
                /\ \A i \in 1..Len(a.v) : PyEq(a.v[i], b.v[i])
           [] a.t = "dict" ->
                /\ {a.v[i][1].v : i \in 1..Len(a.v)} = {b.v[i][1].v : i \in 1..Len(b.v)}
                /\ \A i \in 1..Len(a.v) : \A j \in 1..Len(b.v) :
                      a.v[i][1].v = b.v[j][1].v => PyEq(a.v[i][2], b.v[j][2])
           [] a.t = "array" -> ItemsEq(a.v.items, b.v.items)
           [] a.t = "structarray" ->
                /\ a.v.typecodes = b.v.typecodes
                /\ PyEq(a.v.raw_data, b.v.raw_data)
           [] OTHER -> FALSE

----------------------------------------------------------------------------
(* What the type ids stand for: 2 int16, 3 int32, 4 uint16, 5 uint32,      *)
(* 6 float32, 7 float64, 8 bool, 9 and 10 int8, 11 int64, 12 uint64        *)

SignedMin(w) == PyIntB(TRUE, Zeros(w - 1) \o <<128>>)
SignedMax(w) == PyIntB(FALSE, [i \in 1..w |-> IF i = w THEN 127 ELSE 255])
UnsignedMax(w) == PyIntB(FALSE, [i \in 1..w |-> 255])

IntIn(v, lo, hi) == v.t = "int" /\ ~IntLt(v, lo) /\ ~IntLt(hi, v)

\* a double that is the value of some single: the bits a single cannot hold
\* are zero and the exponent is in the single's range
Float32Value(b) ==
    LET e == F64Exp(b)
        mhi == F64ManHi(b)
        mlo == F64ManLo(b)
    IN  IF e = 2047 THEN mlo = 0 /\ (mhi = 0 \/ mhi >= 4194304)
        ELSE IF e = 0 THEN mhi = 0 /\ mlo = 0
        ELSE IF e >= 897 /\ e <= 1150 THEN mlo = 0
        ELSE IF e >= 874 /\ e <= 896
        THEN mlo = 0 /\ (8388608 + mhi) % Pow2(897 - e) = 0
        ELSE FALSE

Representable(t, v) ==
    CASE t = 2 -> IntIn(v, SignedMin(2), SignedMax(2))
      [] t = 3 -> IntIn(v, SignedMin(4), SignedMax(4))
      [] t = 4 -> IntIn(v, PyInt(0), UnsignedMax(2))
      [] t = 5 -> IntIn(v, PyInt(0), UnsignedMax(4))
      [] t = 6 -> v.t = "float" /\ Float32Value(v.v)
      [] t = 7 -> v.t = "float"
      [] t = 8 -> v.t = "bool"
      [] t \in {9, 10} -> IntIn(v, SignedMin(1), SignedMax(1))
      [] t = 11 -> IntIn(v, SignedMin(8), SignedMax(8))
      [] t = 12 -> IntIn(v, PyInt(0), UnsignedMax(8))
      [] OTHER -> FALSE

\* C2: for every simple type id t in 2..12 and every value v representable
\* in t, the writer registered for t succeeds and reports header size 0, and
\* the reader registered for t, applied to the bytes written, returns v,
\* reports header size 0 and stops exactly where the writer stopped, which
\* is the end of the stream.
C2_ScalarRoundTrip ==
    (func = "simple" /\ Representable(tid, data)) =>
        /\ pc \in {"written", "done"} =>
              /\ wret.err = "" /\ wret.hdr = 0
              /\ wret.end > wret.start /\ wret.end = Len(f.buf)
        /\ pc = "done" =>
              /\ rret.err = "" /\ rret.hdr = 0
              /\ rret.val.t = data.t /\ PyEq(rret.val, data)
              /\ rret.pos - wret.start = wret.end - wret.start

\* a single's smallest subnormal went through type 6 and came back
C2_Witness ==
    /\ func = "simple" /\ pc = "done" /\ tid = 6 /\ version = 4
    /\ data = PyFloat(<<54, 160, 0, 0, 0, 0, 0, 0>>)
    /\ Representable(tid, data)
    /\ PyEq(rret.val, data) /\ wret.start = 3 /\ rret.pos = 7

----------------------------------------------------------------------------
(* Struct leaves: dm_write_types[15] and dm_read_types[15] on tuples *)

\* the scalars the caller puts in a struct: 3, -2**31 (written through the
\* 64-bit type), 56.7 and True
StructScalars ==
    << PyInt(3), PyIntB(TRUE, <<0, 0, 0, 128>>),
       PyFloat(<<64, 76, 89, 153, 153, 153, 153, 154>>), PyBool(TRUE) >>

\* items as a flat tuple (k = 0) or as the pair of tuples that splits them
\* after the k-th
TupleForm(items, k) ==
    IF k = 0 THEN PyTuple(items)
    ELSE PyTuple(<< PyTuple(SubSeq(items, 1, k)),
                    PyTuple(SubSeq(items, k + 1, Len(items))) >>)

InitStruct ==
    /\ InitCaller("struct")
    /\ tid = get_dmtype_for_name("struct")
    /\ \E n \in 0..MaxArity :
       \E ix \in [1..n -> 1..Len(StructScalars)] :
       \E k \in 0..(IF n = 4 THEN 3 ELSE 0) :
          data = TupleForm([i \in 1..n |-> StructScalars[ix[i]]], k)

WriteStruct ==
    /\ pc = "start" /\ func = "struct"
    /\ Written(dm_write_types(tid, Ctx(f, version, size_type), data))

ReadStruct ==
    /\ pc = "written" /\ func = "struct" /\ wret.err = ""
    /\ WasRead(dm_read_types(tid, Rewound))

NextStruct == WriteStruct \/ ReadStruct

SpecStruct == InitStruct /\ [][NextStruct]_vars

\* the values a written tuple resolves to: its items, or the items of its
\* two inner tuples
ResolvedValues(d) ==
    IF Len(d.v) = 2 /\ d.v[1].t = "tuple" /\ d.v[2].t = "tuple"
    THEN d.v[1].v \o d.v[2].v
    ELSE d.v

\* C4: a tuple of scalars whose arity is not 4 (the empty tuple included) is
\* written without error and read back by dm_read_struct as the same flat
\* tuple in the same order; a struct that resolves to exactly 4 values
\* v0..v3, written flat or as a pair of tuples, is read back as
\* ((v0, v1), (v2, v3)).
C4_StructTuples ==
    func = "struct" =>
        /\ pc \in {"written", "done"} => wret.err = ""
        /\ pc = "done" =>
              /\ rret.err = ""
              /\ rret.val.t = "tuple"
              /\ IF Len(ResolvedValues(data)) = 4
                 THEN /\ Len(rret.val.v) = 2
                      /\ PyEq(rret.val, TupleForm(ResolvedValues(data), 2))
                 ELSE /\ Len(rret.val.v) = Len(data.v)
                      /\ PyEq(rret.val, data)

\* the flat tuple (3, -2**31, 56.7, True) came back as
\* ((3, -2**31), (56.7, True))
C4_Witness ==
    /\ func = "struct" /\ pc = "done" /\ rret.err = ""
    /\ data = PyTuple(StructScalars)
    /\ Len(rret.val.v) = 2
    /\ PyEq(rret.val.v[2], PyTuple(<<StructScalars[3], StructScalars[4]>>))

----------------------------------------------------------------------------
(* Array leaves: dm_write_types[20] and dm_read_types[20] on StructArray   *)
(* and DataChunkWriter values                                              *)

\* the typecodes of a StructArray's fields: the registry's characters, and
\* "B", which the registry does not hold
FieldChars == <<"b", "h", "H", "f", "d", "q", "B">>

\* the lengths of the raw data
RawLens == <<0, 1, 2, 4, 8, 12, 16, 48>>

RawBytes(n) == [i \in 1..n |-> (i * 37) % 256]

\* the dtypes of the numpy arrays: int16, int64, float64, and uint8, for
\* which the registry has no character
ElemTypes ==
    << [char |-> "h", itemsize |-> 2], [char |-> "l", itemsize |-> 8],
       [char |-> "d", itemsize |-> 8], [char |-> "B", itemsize |-> 1] >>

\* the lengths of a dimension; the last exceeds ChunkLimit alone
DimLens == <<0, 1, 2, 3>>

\* the k-th element of an array: k, as the dtype holds it
ElemValue(char, k) ==
    IF IsFloatChar(char) THEN PyFloat(IntToF64(PyInt(k))) ELSE PyInt(k)

MakeArray(e, shape) ==
    PyDCW(e.char, e.itemsize, shape,
          [k \in 1..Prod(shape) |-> ElemValue(e.char, k)])

InitArray ==
    /\ InitCaller("array")
    /\ tid = get_dmtype_for_name("array")
    /\ \/ \E n \in 0..MaxFields :
          \E ix \in [1..n -> 1..Len(FieldChars)] :
          \E l \in 1..Len(RawLens) :
             data = PyStructArray([i \in 1..n |-> FieldChars[ix[i]]],
                                  PyBytes(RawBytes(RawLens[l])))
       \/ \E n \in 0..MaxRank :
          \E ix \in [1..n -> 1..Len(DimLens)] :
          \E e \in 1..Len(ElemTypes) :
             data = MakeArray(ElemTypes[e], [i \in 1..n |-> DimLens[ix[i]]])

WriteArray ==
    /\ pc = "start" /\ func = "array"
    /\ Written(dm_write_types(tid, Ctx(f, version, size_type), data))

ReadArray ==
    /\ pc = "written" /\ func = "array" /\ wret.err = ""
    /\ WasRead(dm_read_types(tid, Rewound))

NextArray == WriteArray \/ ReadArray

SpecArray == InitArray /\ [][NextArray]_vars

\* the bytes the writer added to the stream
Output == SubSeq(f.buf, wret.start + 1, wret.end)

\* the k-th size-width word of the output
OutputWord(k) ==
    UBE(SubSeq(Output, (k - 1) * SizeW(size_type) + 1, k * SizeW(size_type)))

\* the output after its first k size-width words
OutputAfter(k) == SubSeq(Output, k * SizeW(size_type) + 1, Len(Output))

\* the field types are types of the registry, there is at least one, and the
\* raw data is a whole number of elements
WholeStructArray(sa) ==
    /\ sa.typecodes # <<>>
    /\ \A i \in 1..Len(sa.typecodes) :
          get_dmtype_for_structchar(sa.typecodes[i]) >= 0
    /\ Len(sa.raw_data.v) % StructArray_bytelen(sa, 1) = 0

\* C3: for every StructArray (fields of registry types) whose raw data length
\* is a multiple of its per-element width, dm_write_array succeeds and the
\* element count it stores is the raw length divided by the per-element
\* width, and dm_read_array on the bytes written returns a StructArray with
\* the same field typecodes and the same raw bytes.
C3_StructArrayRoundTrip ==
    (func = "array" /\ data.t = "structarray" /\ WholeStructArray(data.v)) =>
        /\ pc \in {"written", "done"} =>
              /\ wret.err = ""
              /\ wret.hdr = 4 + 2 * Len(data.v.typecodes)
              /\ OutputWord(4 + 2 * Len(data.v.typecodes))
                    = Len(data.v.raw_data.v) \div StructArray_bytelen(data.v, 1)
              /\ OutputAfter(4 + 2 * Len(data.v.typecodes)) = data.v.raw_data.v
        /\ pc = "done" =>
              /\ rret.err = ""
              /\ rret.val.t = "structarray"
              /\ rret.val.v.typecodes = data.v.typecodes
              /\ rret.val.v.raw_data = data.v.raw_data
              /\ rret.pos = wret.end

\* 48 bytes of ("h", "q") elements, 16 bytes each, came back as written
C3_Witness ==
    /\ func = "array" /\ pc = "done" /\ data.t = "structarray"
    /\ data.v.typecodes = <<"h", "q">>
    /\ Len(data.v.raw_data.v) = 48
    /\ WholeStructArray(data.v)
    /\ OutputWord(8) = 3
    /\ rret.val.t = "structarray" /\ rret.val.v.raw_data = data.v.raw_data

\* the dtype has a character of the registry
RegistryArray(d) == get_dmtype_for_structchar(DCW_typecode(d)) >= 0

\* C5: for every array shape, the bytes DataChunkWriter.write emits after its
\* two-word sub-header are the bytes of the whole array flattened in C order,
\* as one write of the whole buffer would emit them, and the element count in
\* the sub-header is the product of the shape.
C5_ChunkedWrite ==
    (func = "array" /\ data.t = "dcw" /\ RegistryArray(data.v)
        /\ pc \in {"written", "done"}) =>
        /\ wret.err = ""
        /\ wret.hdr = 2
        /\ OutputWord(1) = get_dmtype_for_structchar(DCW_typecode(data.v))
        /\ OutputWord(2) = Prod(data.v.shape)
        /\ OutputAfter(2) = tobytes(DCW_typecode(data.v), data.v.items)

\* an array whose innermost dimension alone exceeds the chunk size, and whose
\* size exceeds it, was written element by element
C5_Witness ==
    /\ func = "array" /\ pc = "written" /\ data.t = "dcw"
    /\ data.v.char = "l" /\ data.v.shape = <<2, 3>>
    /\ Prod(data.v.shape) > ChunkLimit
    /\ DCW_chunk(data.v.shape, 2, 0, 1).index_count = 0
    /\ wret.err = ""
    /\ Len(OutputAfter(2)) = 8 * 2 * 3

----------------------------------------------------------------------------
(* Leaves: dm_write_tag_data and dm_read_tag_data *)

\* leaves that are no scalars: a string, a struct, an int16 array, a
\* StructArray of three fields and one of two
OtherLeaves ==
    << PyStr(<<72, 105>>),
       PyTuple(<<PyInt(3), PyFloat(<<64, 76, 89, 153, 153, 153, 153, 154>>)>>),
       MakeArray(ElemTypes[1], <<3>>),
       PyStructArray(<<"h", "h", "h">>, PyBytes(RawBytes(12))),
       PyStructArray(<<"f", "f">>, PyBytes(RawBytes(16))) >>

\* values of other types: array.array of int16 and of float64, None, bytes, a
\* list and a dict
OtherValues ==
    << PyArray("h", <<PyInt(1), PyInt(2)>>), PyArray("d", <<>>),
       PyNone, PyBytes(<<1>>), PyList(<<>>), PyDict(<<>>) >>

InitTagData ==
    /\ InitCaller("tag_data")
    /\ tid = 0
    /\ \/ data \in Scalars
       \/ \E i \in 1..Len(OtherLeaves) : data = OtherLeaves[i]
       \/ \E i \in 1..Len(OtherValues) : data = OtherValues[i]

\* dm_write_tag_data returns nothing
WriteTagData ==
    /\ pc = "start" /\ func = "tag_data"
    /\ Written([hdr |-> 0,
                s |-> dm_write_tag_data(Ctx(f, version, size_type), data)])

ReadTagDataResult(r) == WasRead([val |-> r.val, hdr |-> 0, s |-> r.s])

ReadTagData ==
    /\ pc = "written" /\ func = "tag_data" /\ wret.err = ""
    /\ ReadTagDataResult(dm_read_tag_data(Rewound))

NextTagData == WriteTagData \/ ReadTagData

SpecTagData == InitTagData /\ [][NextTagData]_vars

\* the type id of a leaf in the output: the word after the delimiter and the
\* header length
OutputTypeId ==
    UBE(SubSeq(Output, 5 + SizeW(size_type), 4 + 2 * SizeW(size_type)))

\* the payload of a leaf in the output
OutputPayload == SubSeq(Output, 5 + 2 * SizeW(size_type), Len(Output))

OutsideInt32(v) ==
    ~IntIn(v, SignedMin(4), SignedMax(4))

\* C9: an integer leaf outside the signed 32-bit range and inside the signed
\* 64-bit range is written by dm_write_tag_data with type id 11 and read back
\* as the same integer; and whatever integer leaf is written, the bytes
\* written are never the integer reduced modulo 2**32: the leaf read back is
\* the integer itself.
C9_LargeIntegerLeaf ==
    (func = "tag_data" /\ data.t = "int" /\ pc \in {"written", "done"}) =>
        /\ (OutsideInt32(data) /\ IntIn(data, SignedMin(8), SignedMax(8))) =>
              /\ wret.err = ""
              /\ OutputTypeId = 11
              /\ Len(OutputPayload) = 8
              /\ pc = "done" => rret.err = ""
        /\ wret.err = "" =>
              /\ struct_unpack_le(get_structchar_for_dmtype(OutputTypeId),
                                  OutputPayload) = data
              /\ pc = "done" => (rret.err = "" => rret.val = data)

\* 999999999999 went out as type 11 and came back
C9_Witness ==
    /\ func = "tag_data" /\ pc = "done" /\ wret.err = "" /\ rret.err = ""
    /\ data = PyIntB(FALSE, <<255, 15, 165, 212, 232>>)
    /\ OutputTypeId = 11
    /\ rret.val = data

----------------------------------------------------------------------------
(* Groups: dm_write_tag_root and dm_read_tag_root on trees *)

\* the leaves of the trees: 45, 999999999999, 56.7, True, a uint16 array, a
\* float64 array, an empty int16 array, an int16 array of a negative number,
\* and an array of two dimensions
TreeLeaves ==
    << PyInt(45),
       PyIntB(FALSE, <<255, 15, 165, 212, 232>>),
       PyFloat(<<64, 76, 89, 153, 153, 153, 153, 154>>),
       PyBool(TRUE),
       MakeArray([char |-> "H", itemsize |-> 2], <<2>>),
       MakeArray(ElemTypes[3], <<2>>),
       MakeArray(ElemTypes[1], <<0>>),
       PyDCW("h", 2, <<1>>, <<PyInt(0 - 1)>>),
       MakeArray(ElemTypes[1], <<2, 2>>) >>

\* the keys of the dicts: "d", "Nope", "Name", "aNames"
TreeKeys ==
    << PyStr(<<100>>), PyStr(<<78, 111, 112, 101>>), PyStr(<<78, 97, 109, 101>>),
       PyStr(<<97, 78, 97, 109, 101, 115>>) >>

KeyJoe == PyStr(<<74, 111, 101>>)
KeyHi == PyStr(<<104, 105>>)
KeyE == PyStr(<<101>>)

\* {k1: l1, "Joe": {"hi": [34, l2], k2: l2, "e": {}}}
NestedDict(k1, l1, k2, l2) ==
    PyDict(<< <<k1, l1>>,
              <<KeyJoe, PyDict(<< <<KeyHi, PyList(<<PyInt(34), l2>>)>>,
                                  <<k2, l2>>,
                                  <<KeyE, PyDict(<<>>)>> >>)>> >>)

\* [[], {}, [l1], {k1: l2}]
NestedList(l1, k1, l2) ==
    PyList(<< PyList(<<>>), PyDict(<<>>), PyList(<<l1>>),
              PyDict(<< <<k1, l2>> >>) >>)

InitTagRoot ==
    /\ InitCaller("tag_root")
    /\ tid = 0
    /\ \/ data = PyDict(<<>>)
       \/ data = PyList(<<>>)
       \/ \E l1, l2 \in 1..Len(TreeLeaves) :
             data = PyList(<<TreeLeaves[l1], TreeLeaves[l2]>>)
       \/ \E k1, k2 \in 1..Len(TreeKeys) : \E l1, l2 \in 1..Len(TreeLeaves) :
             \/ k1 # k2 /\ data = PyDict(<< <<TreeKeys[k1], TreeLeaves[l1]>>,
                                            <<TreeKeys[k2], TreeLeaves[l2]>> >>)
             \/ k1 = 1 /\ data = NestedDict(TreeKeys[k1], TreeLeaves[l1],
                                            TreeKeys[k2], TreeLeaves[l2])
             \/ k2 = 1 /\ data = NestedList(TreeLeaves[l1], TreeKeys[k1],
                                            TreeLeaves[l2])

\* dm_write_tag_root returns nothing
WriteTagRoot ==
    /\ pc = "start" /\ func = "tag_root"
    /\ Written([hdr |-> 0,
                s |-> dm_write_tag_root(Ctx(f, version, size_type), data)])

ReadTagRootResult(r) == WasRead([val |-> r.val, hdr |-> 0, s |-> r.s])

ReadTagRoot ==
    /\ pc = "written" /\ func = "tag_root" /\ wret.err = ""
    /\ ReadTagRootResult(dm_read_tag_root(Rewound))

NextTagRoot == WriteTagRoot \/ ReadTagRoot

SpecTagRoot == InitTagRoot /\ [][NextTagRoot]_vars

\* a leaf of the claim: an integer (of the signed 64-bit range, the widest
\* the registry has), a float, a boolean, or a numeric array: one dimension,
\* an element type of the registry
TreeLeaf(x) ==
    CASE x.t = "int" -> IntIn(x, SignedMin(8), SignedMax(8))
      [] x.t \in {"float", "bool"} -> TRUE
      [] x.t = "dcw" -> Len(x.v.shape) = 1 /\ RegistryArray(x.v)
      [] OTHER -> FALSE

\* a tree of the claim: dict-groups with non-empty (Latin-1) keys and
\* list-groups, nested, with such leaves
RECURSIVE TagTree(_)
TagTree(x) ==
    CASE x.t = "dict" ->
            \A i \in 1..Len(x.v) :
                /\ x.v[i][1].t = "str" /\ x.v[i][1].v # <<>>
                /\ \A j \in 1..Len(x.v[i][1].v) : x.v[i][1].v[j] <= 255
                /\ \/ x.v[i][2].t \in {"dict", "list"} /\ TagTree(x.v[i][2])
                   \/ TreeLeaf(x.v[i][2])
      [] x.t = "list" ->
            \A i \in 1..Len(x.v) :
                \/ x.v[i].t \in {"dict", "list"} /\ TagTree(x.v[i])
                \/ TreeLeaf(x.v[i])
      [] OTHER -> FALSE

\* a non-empty array of integers
IntegerArray(x) ==
    x.t = "dcw" /\ x.v.items # <<>> /\ ~IsFloatChar(DCW_typecode(x.v))

\* no dict of the tree holds a non-empty array of integers under a key that
\* matches ".*Name"
RECURSIVE NoNamedIntegerArray(_)
NoNamedIntegerArray(x) ==
    CASE x.t = "dict" ->
            \A i \in 1..Len(x.v) :
                /\ ~(MatchesName(x.v[i][1].v) /\ IntegerArray(x.v[i][2]))
                /\ NoNamedIntegerArray(x.v[i][2])
      [] x.t = "list" -> \A i \in 1..Len(x.v) : NoNamedIntegerArray(x.v[i])
      [] OTHER -> TRUE

\* the tree was written without error, and read back without error as an
\* equal tree
RoundTrips ==
    /\ pc \in {"written", "done"} => wret.err = ""
    /\ pc = "done" => (rret.err = "" /\ PyEq(rret.val, data) /\ rret.pos = wret.end)

\* C1 as claimed: for both format versions and every tag tree of nested
\* dict-groups (non-empty keys) and list-groups with integer, float, boolean
\* and numeric-array leaves, dm_read_tag_root on the bytes dm_write_tag_root
\* wrote returns an equal tree.
C1_TagRootRoundTrip_Claimed ==
    (func = "tag_root" /\ TagTree(data)) => RoundTrips

\* C1, amended: the same, for the trees in which no non-empty integer array
\* sits under a dict key matching ".*Name" (such a leaf is read back as a
\* string, or the read fails).
C1_TagRootRoundTrip ==
    (func = "tag_root" /\ TagTree(data) /\ NoNamedIntegerArray(data)) => RoundTrips

\* a nested tree, with a float array under the key "Name", came back equal
\* from a dm4 stream
C1_Witness ==
    /\ func = "tag_root" /\ pc = "done" /\ version = 4
    /\ data = NestedDict(TreeKeys[1], TreeLeaves[4], TreeKeys[3], TreeLeaves[6])
    /\ TagTree(data) /\ NoNamedIntegerArray(data)
    /\ rret.err = "" /\ PyEq(rret.val, data)

----------------------------------------------------------------------------
(* The file envelope: dm_read_header and dm_write_header *)

\* the assignment of the globals version and size_type
SetVersion(s, ver) ==
    [s EXCEPT !.version = ver, !.size_type = IF ver = 4 THEN "Q" ELSE "L"]

\* dm_write_header with end - start as the file size
dm_write_header_size_plain(start, s2) ==
    IF s2.err # "" THEN s2
    ELSE PutBE(f_seek(put_size(f_seek(s2, IF s2.version = 4 THEN start - 12
                                          ELSE start - 8),
                               s2.pos - start),
                      s2.pos),
               <<Fld(0, 4), Fld(0, 4)>>)

\* after the root group: the file size at its place in the header, and the
\* two zeros at the end
dm_write_header_size(start, s2) ==
    IF s2.err # "" THEN s2
    ELSE PutBE(f_seek(put_size(f_seek(s2, IF s2.version = 4 THEN start - 12
                                          ELSE start - 8),
                               s2.pos - start + 4),
                      s2.pos),
               <<Fld(0, 4), Fld(0, 4)>>)

dm_write_header_root(s1, outdata) ==
    dm_write_header_size(s1.pos, dm_write_tag_root(s1, outdata))

dm_write_header_version(s0, outdata) ==
    dm_write_header_root(
        PutBE(s0, <<Fld(s0.version, 4), Fld(0, SizeW(s0.size_type)), Fld(1, 4)>>),
        outdata)

dm_write_header(s, file_version, outdata) ==
    IF s.err # "" THEN s
    ELSE dm_write_header_version(
            SetVersion(s, IF file_version = 4 THEN 4 ELSE 3), outdata)

\* what dm_read_header returns when it has raised: [val, s]
HeaderFail(s) == [val |-> PyNone, s |-> s]

\* dm_read_header without its last assertion
dm_read_header_trailer_unchecked(r, t) ==
    IF t.s.err # "" THEN HeaderFail(t.s)
    ELSE [val |-> r.val, s |-> t.s]

\* r is the root as read, t the two fields after it
dm_read_header_trailer(r, t) ==
    IF t.s.err # "" THEN HeaderFail(t.s)
    ELSE IF t.vals[1] # 0 \/ t.vals[2] # 0
    THEN HeaderFail(Raise(t.s, "AssertionError"))
    ELSE [val |-> r.val, s |-> t.s]

dm_read_header_root(r) == dm_read_header_trailer(r, GetBE(r.s, <<4, 4>>))

\* dm_read_header with the file size compared with end - start
dm_read_header_sized_checked(h) ==
    IF h.s.err # "" THEN HeaderFail(h.s)
    ELSE IF h.vals[2] # 1 THEN HeaderFail(Raise(h.s, "AssertionError"))
    ELSE IF dm_read_tag_root(h.s).s.err = ""
            /\ h.vals[1] # dm_read_tag_root(h.s).s.pos - h.s.pos + 4
    THEN HeaderFail(Raise(dm_read_tag_root(h.s).s, "AssertionError"))
    ELSE dm_read_header_root(dm_read_tag_root(h.s))

\* h holds file_size and endianness
dm_read_header_sized(h) ==
    IF h.s.err # "" THEN HeaderFail(h.s)
    ELSE IF h.vals[2] # 1 THEN HeaderFail(Raise(h.s, "AssertionError"))
    ELSE dm_read_header_root(dm_read_tag_root(h.s))

\* v holds ver
dm_read_header_version(v) ==
    IF v.s.err # "" THEN HeaderFail(v.s)
    ELSE IF v.n \notin {3, 4} THEN HeaderFail(Raise(v.s, "AssertionError"))
    ELSE dm_read_header_sized(
            GetBE(SetVersion(v.s, v.n), <<IF v.n = 4 THEN 8 ELSE 4, 4>>))

dm_read_header(s) == dm_read_header_version(get_uint(s, 4))

\* parse_dm3.parse_dm_header, which dm3_image_utils calls and parse_dm3.py
\* does not define: the header codec, writing when it is given a tree and
\* reading when it is not
parse_dm_header_write(s, file_version, outdata) ==
    dm_write_header(s, file_version, outdata)

parse_dm_header_read(s) == dm_read_header(s)

\* parse_dm3.structarray, likewise: the struct array of the codec, its raw
\* data not yet set
structarray(typecodes) == [typecodes |-> typecodes, raw_data |-> PyNone]

----------------------------------------------------------------------------
(* Text, floats and dicts of the image layer *)

\* the text literals of dm3_image_utils.py and of its tests, as code points
\* ("um" stands for the micro sign followed by m)
Text ==
    (  "ImageList" :> <<73, 109, 97, 103, 101, 76, 105, 115, 116>> @@
       "ImageData" :> <<73, 109, 97, 103, 101, 68, 97, 116, 97>> @@
       "ImageTags" :> <<73, 109, 97, 103, 101, 84, 97, 103, 115>> @@
       "DataType" :> <<68, 97, 116, 97, 84, 121, 112, 101>> @@
       "PixelDepth" :> <<80, 105, 120, 101, 108, 68, 101, 112, 116, 104>> @@
       "Dimensions" :> <<68, 105, 109, 101, 110, 115, 105, 111, 110, 115>> @@
       "Data" :> <<68, 97, 116, 97>> @@
       "Calibrations" :>
           <<67, 97, 108, 105, 98, 114, 97, 116, 105, 111, 110, 115>> @@
       "Dimension" :> <<68, 105, 109, 101, 110, 115, 105, 111, 110>> @@
       "Brightness" :> <<66, 114, 105, 103, 104, 116, 110, 101, 115, 115>> @@
       "Origin" :> <<79, 114, 105, 103, 105, 110>> @@
       "Scale" :> <<83, 99, 97, 108, 101>> @@
       "Units" :> <<85, 110, 105, 116, 115>> @@
       "DataBar" :> <<68, 97, 116, 97, 66, 97, 114>> @@
       "Acquisition Date" :>
           <<65, 99, 113, 117, 105, 115, 105, 116, 105, 111, 110, 32, 68, 97,
           116, 101>> @@
       "Acquisition Time" :>
           <<65, 99, 113, 117, 105, 115, 105, 116, 105, 111, 110, 32, 84,
           105, 109, 101>> @@
       "ImageSourceList" :>
           <<73, 109, 97, 103, 101, 83, 111, 117, 114, 99, 101, 76, 105, 115,
           116>> @@
       "ClassName" :> <<67, 108, 97, 115, 115, 78, 97, 109, 101>> @@
       "ImageSource:Simple" :>
           <<73, 109, 97, 103, 101, 83, 111, 117, 114, 99, 101, 58, 83, 105,
           109, 112, 108, 101>> @@
       "ImageSource:Summed" :>
           <<73, 109, 97, 103, 101, 83, 111, 117, 114, 99, 101, 58, 83, 117,
           109, 109, 101, 100>> @@
       "Id" :> <<73, 100>> @@
       "ImageRef" :> <<73, 109, 97, 103, 101, 82, 101, 102>> @@
       "Do Sum" :> <<68, 111, 32, 83, 117, 109>> @@
       "LayerEnd" :> <<76, 97, 121, 101, 114, 69, 110, 100>> @@
       "LayerStart" :> <<76, 97, 121, 101, 114, 83, 116, 97, 114, 116>> @@
       "Summed Dimension" :>
           <<83, 117, 109, 109, 101, 100, 32, 68, 105, 109, 101, 110, 115,
           105, 111, 110>> @@
       "DocumentObjectList" :>
           <<68, 111, 99, 117, 109, 101, 110, 116, 79, 98, 106, 101, 99, 116,
           76, 105, 115, 116>> @@
       "ImageSource" :>
           <<73, 109, 97, 103, 101, 83, 111, 117, 114, 99, 101>> @@
       "AnnotationType" :>
           <<65, 110, 110, 111, 116, 97, 116, 105, 111, 110, 84, 121, 112,
           101>> @@
       "AnnotationGroupList" :>
           <<65, 110, 110, 111, 116, 97, 116, 105, 111, 110, 71, 114, 111,
           117, 112, 76, 105, 115, 116>> @@
       "Name" :> <<78, 97, 109, 101>> @@
       "SICursor" :> <<83, 73, 67, 117, 114, 115, 111, 114>> @@
       "Rectangle" :> <<82, 101, 99, 116, 97, 110, 103, 108, 101>> @@
       "ImageDisplayType" :>
           <<73, 109, 97, 103, 101, 68, 105, 115, 112, 108, 97, 121, 84, 121,
           112, 101>> @@
       "Image Behavior" :>
           <<73, 109, 97, 103, 101, 32, 66, 101, 104, 97, 118, 105, 111,
           114>> @@
       "ViewDisplayID" :>
           <<86, 105, 101, 119, 68, 105, 115, 112, 108, 97, 121, 73, 68>> @@
       "InImageMode" :>
           <<73, 110, 73, 109, 97, 103, 101, 77, 111, 100, 101>> @@
       "Meta Data" :> <<77, 101, 116, 97, 32, 68, 97, 116, 97>> @@
       "Format" :> <<70, 111, 114, 109, 97, 116>> @@
       "Signal" :> <<83, 105, 103, 110, 97, 108>> @@
       "Spectrum" :> <<83, 112, 101, 99, 116, 114, 117, 109>> @@
       "Spectrum image" :>
           <<83, 112, 101, 99, 116, 114, 117, 109, 32, 105, 109, 97, 103,
           101>> @@
       "EELS" :> <<69, 69, 76, 83>> @@
       "eels" :> <<101, 101, 108, 115>> @@
       "spectrum" :> <<115, 112, 101, 99, 116, 114, 117, 109>> @@
       "spectrum image" :>
           <<115, 112, 101, 99, 116, 114, 117, 109, 32, 105, 109, 97, 103,
           101>> @@
       "IsSequence" :> <<73, 115, 83, 101, 113, 117, 101, 110, 99, 101>> @@
       "hardware_source" :>
           <<104, 97, 114, 100, 119, 97, 114, 101, 95, 115, 111, 117, 114,
           99, 101>> @@
       "signal_type" :>
           <<115, 105, 103, 110, 97, 108, 95, 116, 121, 112, 101>> @@
       "autostem" :> <<97, 117, 116, 111, 115, 116, 101, 109>> @@
       "high_tension" :>
           <<104, 105, 103, 104, 95, 116, 101, 110, 115, 105, 111, 110>> @@
       "ImageScanned" :>
           <<73, 109, 97, 103, 101, 83, 99, 97, 110, 110, 101, 100>> @@
       "EHT" :> <<69, 72, 84>> @@
       "Timestamp" :> <<84, 105, 109, 101, 115, 116, 97, 109, 112>> @@
       "Timezone" :> <<84, 105, 109, 101, 122, 111, 110, 101>> @@
       "TimezoneOffset" :>
           <<84, 105, 109, 101, 122, 111, 110, 101, 79, 102, 102, 115, 101,
           116>> @@
       "" :> <<>> @@
       "nm" :> <<110, 109>> @@
       "um" :> <<181, 109>> @@
       "six" :> <<115, 105, 120>> @@
       "eV" :> <<101, 86>> @@
       "abc" :> <<97, 98, 99>> @@
       "def" :> <<100, 101, 102>> @@
       "efg" :> <<101, 102, 103>> @@
       "one" :> <<111, 110, 101>> @@
       "two" :> <<116, 119, 111>> @@
       "three" :> <<116, 104, 114, 101, 101>> @@
       "four" :> <<102, 111, 117, 114>> @@
       "eight" :> <<101, 105, 103, 104, 116>> @@
       "sevenf" :> <<115, 101, 118, 101, 110, 102>> @@
       "TWO" :> <<84, 87, 79>> @@
       "2013-11-18T14:05:04" :>
           <<50, 48, 49, 51, 45, 49, 49, 45, 49, 56, 84, 49, 52, 58, 48, 53,
           58, 48, 52>> @@
       "America/Los_Angeles" :>
           <<65, 109, 101, 114, 105, 99, 97, 47, 76, 111, 115, 95, 65, 110,
           103, 101, 108, 101, 115>> @@
       "-0700" :> <<45, 48, 55, 48, 48>> @@
       "PST" :> <<80, 83, 84>> @@
       " " :> <<32>> )

S(name) == PyStr(Text[name])

\* x / y in IEEE-754 double arithmetic, for the operands the calibrations of
\* the model give: <<x, y, x / y>>
Quotients ==
    << << <<128, 0, 0, 0, 0, 0, 0, 0>>,
          <<63, 240, 0, 0, 0, 0, 0, 0>>,
          <<128, 0, 0, 0, 0, 0, 0, 0>> >>,
       << <<191, 230, 102, 102, 102, 102, 102, 102>>,
          <<63, 211, 51, 51, 51, 51, 51, 51>>,
          <<192, 2, 170, 170, 170, 170, 170, 171>> >>,
       << <<191, 240, 0, 0, 0, 0, 0, 0>>,
          <<64, 0, 0, 0, 0, 0, 0, 0>>,
          <<191, 224, 0, 0, 0, 0, 0, 0>> >>,
       << <<191, 241, 153, 153, 153, 153, 153, 154>>,
          <<64, 0, 204, 204, 204, 204, 204, 205>>,
          <<191, 224, 195, 12, 48, 195, 12, 49>> >>,
       << <<192, 0, 0, 0, 0, 0, 0, 0>>,
          <<64, 8, 0, 0, 0, 0, 0, 0>>,
          <<191, 229, 85, 85, 85, 85, 85, 85>> >>,
       << <<192, 17, 153, 153, 153, 153, 153, 154>>,
          <<64, 22, 0, 0, 0, 0, 0, 0>>,
          <<191, 233, 153, 153, 153, 153, 153, 154>> >> >>

\* x * y likewise: <<x, y, x * y>>
Products ==
    << << <<0, 0, 0, 0, 0, 0, 0, 0>>,
          <<63, 240, 0, 0, 0, 0, 0, 0>>,
          <<0, 0, 0, 0, 0, 0, 0, 0>> >>,
       << <<63, 224, 0, 0, 0, 0, 0, 0>>,
          <<64, 0, 0, 0, 0, 0, 0, 0>>,
          <<63, 240, 0, 0, 0, 0, 0, 0>> >>,
       << <<63, 224, 195, 12, 48, 195, 12, 49>>,
          <<64, 0, 204, 204, 204, 204, 204, 205>>,
          <<63, 241, 153, 153, 153, 153, 153, 154>> >>,
       << <<63, 229, 85, 85, 85, 85, 85, 85>>,
          <<64, 8, 0, 0, 0, 0, 0, 0>>,
          <<64, 0, 0, 0, 0, 0, 0, 0>> >>,
       << <<63, 233, 153, 153, 153, 153, 153, 154>>,
          <<64, 22, 0, 0, 0, 0, 0, 0>>,
          <<64, 17, 153, 153, 153, 153, 153, 154>> >>,
       << <<64, 2, 170, 170, 170, 170, 170, 171>>,
          <<63, 211, 51, 51, 51, 51, 51, 51>>,
          <<63, 230, 102, 102, 102, 102, 102, 103>> >>,
       << <<128, 0, 0, 0, 0, 0, 0, 0>>,
          <<0, 0, 0, 0, 0, 0, 0, 0>>,
          <<128, 0, 0, 0, 0, 0, 0, 0>> >>,
       << <<128, 0, 0, 0, 0, 0, 0, 0>>,
          <<63, 240, 0, 0, 0, 0, 0, 0>>,
          <<128, 0, 0, 0, 0, 0, 0, 0>> >> >>

\* -x
FNeg(x) == PyFloat([x.v EXCEPT ![1] = (x.v[1] + 128) % 256])

Lookup(table, x, y) ==
    table[CHOOSE i \in 1..Len(table) : table[i][1] = x /\ table[i][2] = y][3]

\* x / y and x * y on floats
FDiv(x, y) == PyFloat(Lookup(Quotients, x.v, y.v))
FMul(x, y) == PyFloat(Lookup(Products, x.v, y.v))

F0 == PyFloat(Zeros(8))                          \* 0.0
F1 == PyFloat(<<63, 240, 0, 0, 0, 0, 0, 0>>)     \* 1.0

\* d[k], k in d, d.get(k, default), d[k] = v, d.pop(k, None), d.update(e)
DictHas(d, k) == \E i \in 1..Len(d.v) : d.v[i][1] = k
DictGet(d, k, default) ==
    IF DictHas(d, k)
    THEN d.v[CHOOSE i \in 1..Len(d.v) : d.v[i][1] = k][2]
    ELSE default
DictPut(d, k, v) == PyDict(DictSet(d.v, k, v))
DictPop(d, k) == PyDict(SelectSeq(d.v, LAMBDA p : p[1] # k))
RECURSIVE DictUpdate(_, _)
DictUpdate(d, pairs) ==
    IF pairs = <<>> THEN d
    ELSE DictUpdate(DictPut(d, Head(pairs)[1], Head(pairs)[2]), Tail(pairs))

\* d.setdefault(k, dict())[k2] = v
DictPutIn(d, k, k2, v) == DictPut(d, k, DictPut(DictGet(d, k, PyDict(<<>>)), k2, v))

\* str.lower(), for the letters A to Z
Lower(cps) == [i \in 1..Len(cps) |->
                  IF cps[i] >= 65 /\ cps[i] <= 90 THEN cps[i] + 32 ELSE cps[i]]

----------------------------------------------------------------------------
(* numpy arrays: [char, itemsize, shape, items], the items in C order.  An *)
(* item is a Python number, or for a complex array the bytes of the        *)
(* element.                                                                *)

\* dtype.type, the scalar type of a dtype
dtype_type(a) ==
    CASE a.char = "b" -> "int8"
      [] a.char = "B" -> "uint8"
      [] a.char = "h" -> "int16"
      [] a.char = "H" -> "uint16"
      [] a.char = "i" -> "int32"
      [] a.char = "I" -> "uint32"
      [] a.char \in {"l", "q"} -> IF a.itemsize = 4 THEN "int32" ELSE "int64"
      [] a.char \in {"L", "Q"} -> IF a.itemsize = 4 THEN "uint32" ELSE "uint64"
      [] a.char = "f" -> "float32"
      [] a.char = "d" -> "float64"
      [] a.char = "F" -> "complex64"
      [] a.char = "D" -> "complex128"
      [] OTHER -> "object"

\* the position (from 0) of an index tuple (from 0) in C order, and back
Ravel(idx, shape) ==
    Sum([i \in 1..Len(shape) |-> idx[i] * Prod(SubSeq(shape, i + 1, Len(shape)))])
Unravel(k, shape) ==
    [i \in 1..Len(shape) |->
        (k \div Prod(SubSeq(shape, i + 1, Len(shape)))) % shape[i]]

\* numpy.transpose(a, axes), the axes counted from 0
transpose(a, axes) ==
    LET shape == [i \in 1..Len(axes) |-> a.shape[axes[i] + 1]]
        From(idx) == [j \in 1..Len(axes) |->
                         idx[CHOOSE i \in 1..Len(axes) : axes[i] = j - 1]]
    IN  [a EXCEPT !.shape = shape,
                  !.items = [k \in 1..Len(a.items) |->
                      a.items[Ravel(From(Unravel(k - 1, shape)), a.shape) + 1]]]

\* numpy.moveaxis(a, source, destination)
moveaxis(a, source, destination) ==
    LET rest == SelectSeq([i \in 1..Len(a.shape) |-> i - 1],
                          LAMBDA n : n # source)
    IN  transpose(a, SubSeq(rest, 1, destination) \o <<source>>
                     \o SubSeq(rest, destination + 1, Len(rest)))

\* numpy.expand_dims(a, axis) and numpy.squeeze(a, axis) on an axis of length 1
expand_dims(a, axis) ==
    [a EXCEPT !.shape = SubSeq(a.shape, 1, axis) \o <<1>>
                        \o SubSeq(a.shape, axis + 1, Len(a.shape))]
squeeze(a, axis) ==
    [a EXCEPT !.shape = SubSeq(a.shape, 1, axis)
                        \o SubSeq(a.shape, axis + 2, Len(a.shape))]

----------------------------------------------------------------------------
(* ImageData: ndarray_to_imagedatadict and imagedatadict_to_ndarray *)

structarray_to_np_map ==
    << [types |-> <<"d", "d">>, np |-> "complex128", char |-> "D", itemsize |-> 16],
       [types |-> <<"f", "f">>, np |-> "complex64", char |-> "F", itemsize |-> 8] >>

\* DataType code, label, numpy type
dm_image_dtypes ==
    << [key |-> 1, name |-> "int16", np |-> "int16"],
       [key |-> 2, name |-> "float32", np |-> "float32"],
       [key |-> 3, name |-> "Complex64", np |-> "complex64"],
       [key |-> 6, name |-> "uint8", np |-> "int8"],
       [key |-> 7, name |-> "int32", np |-> "int32"],
       [key |-> 9, name |-> "int8", np |-> "int8"],
       [key |-> 10, name |-> "uint16", np |-> "uint16"],
       [key |-> 11, name |-> "uint32", np |-> "uint32"],
       [key |-> 12, name |-> "float64", np |-> "float64"],
       [key |-> 13, name |-> "Complex128", np |-> "complex128"],
       [key |-> 14, name |-> "Bool", np |-> "int8"],
       [key |-> 23, name |-> "RGB", np |-> "int32"] >>

platform_independent_char(a) ==
    CASE a.char = "l" /\ a.itemsize = 4 -> "i"
      [] a.char = "l" /\ a.itemsize = 8 -> "q"
      [] a.char = "L" /\ a.itemsize = 4 -> "I"
      [] a.char = "L" /\ a.itemsize = 8 -> "Q"
      [] OTHER -> a.char

\* what a call of the image layer returns: [err, val]
Ok(v) == [err |-> "", val |-> v]
Err(e) == [err |-> e, val |-> PyNone]

\* a shape as a list of ints, reversed: list(shape[::-1])
ShapeList(shape) == PyList([i \in 1..Len(shape) |-> PyInt(shape[Len(shape) + 1 - i])])

\* the pixels of an array of 3 or 4 bytes each as one int32 each, a missing
\* fourth byte being 255: view(numpy.int32) of the RGBA image
rgb_view(nparr) ==
    LET c == nparr.shape[3] IN
    [k \in 1..(nparr.shape[1] * nparr.shape[2]) |->
        IntFromLE([j \in 1..4 |->
                      IF j <= c
                      THEN struct_pack_le("B", nparr.items[(k - 1) * c + j]).bytes[1]
                      ELSE 255],
                  TRUE)]

\* the typecodes array.array takes
ArrayTypecodes == {"b", "B", "u", "h", "H", "i", "I", "l", "L", "q", "Q", "f", "d"}

\* array.array(typecode, items)
array_array(typecode, items) ==
    IF typecode \notin ArrayTypecodes THEN Err("ValueError")
    ELSE Ok(PyArray(typecode, items))

\* the dict of lines 117-128 and 130-138, given its Data
imagedatadict(data_type, pixel_depth, dimensions, d) ==
    IF d.err # "" THEN d
    ELSE Ok(PyDict(<< <<S("DataType"), data_type>>,
                      <<S("PixelDepth"), PyInt(pixel_depth)>>,
                      <<S("Dimensions"), dimensions>>,
                      <<S("Data"), d.val>> >>))

\* the branch of the 8-bit colour images (of three axes)
ndarray_to_imagedatadict_rgb(nparr) ==
    IF Len(nparr.shape) < 3 THEN Err("IndexError")
    ELSE IF Len(nparr.shape) > 3 THEN Err("ValueError")
    ELSE imagedatadict(PyInt(23), 4, ShapeList(SubSeq(nparr.shape, 1, 2)),
                       array_array("i", rgb_view(nparr)))

\* the other branch, dm_type being a DataType code or None
ndarray_to_imagedatadict_plain(nparr, dm_type) ==
    imagedatadict(
        dm_type, nparr.itemsize, ShapeList(nparr.shape),
        LET i == First(structarray_to_np_map,
                       LAMBDA e : e.np = dtype_type(nparr))
        IN  IF i # 0
            THEN Ok([t |-> "structarray",
                     v |-> [structarray(structarray_to_np_map[i].types)
                               EXCEPT !.raw_data = PyBytes(Concat(nparr.items))]])
            ELSE array_array(platform_independent_char(nparr), nparr.items))

\* the first DataType code of the table that stands for the array's type
ndarray_to_imagedatadict_typed(nparr, i) ==
    IF /\ i = 0
       /\ dtype_type(nparr) = "uint8"
       /\ nparr.shape[Len(nparr.shape)] \in {3, 4}
    THEN ndarray_to_imagedatadict_rgb(nparr)
    ELSE ndarray_to_imagedatadict_plain(
            nparr, IF i = 0 THEN PyNone ELSE PyInt(dm_image_dtypes[i].key))

ndarray_to_imagedatadict(nparr) ==
    ndarray_to_imagedatadict_typed(
        nparr, First(dm_image_dtypes, LAMBDA e : e.np = dtype_type(nparr)))

\* an int below 2**24 in magnitude as a number; Huge stands for the others
IntValue(x) ==
    IF Len(AsInt(x).v.mag) > 3 THEN Huge
    ELSE IF AsInt(x).v.neg THEN 0 - MagNat(AsInt(x).v.mag)
    ELSE MagNat(AsInt(x).v.mag)

\* a reshape that takes the shape as it is given
ReshapeTo_unchecked(n, shape) == shape

\* the shape reshape arrives at for n items: one length of -1 is worked out
\* from the others; <<-1>> stands for the ValueError
ReshapeTo(n, shape) ==
    LET unknown == {k \in 1..Len(shape) : shape[k] = 0 - 1}
        known == Prod([k \in 1..Len(shape) |->
                          IF k \in unknown THEN 1 ELSE shape[k]])
    IN  IF \E k \in 1..Len(shape) : shape[k] < 0 - 1 \/ shape[k] = Huge
        THEN <<0 - 1>>
        ELSE IF unknown = {}
        THEN IF known = n THEN shape ELSE <<0 - 1>>
        ELSE IF Cardinality(unknown) > 1 \/ known = 0 \/ n % known # 0
        THEN <<0 - 1>>
        ELSE [k \in 1..Len(shape) |->
                 IF k \in unknown THEN n \div known ELSE shape[k]]

\* numpy.asarray(arr, dtype=arr.typecode) and numpy.frombuffer(arr.raw_data,
\* dtype=structarray_to_np_map[t]): [err, val]; the err "None" stands for the
\* im that stays None
imagedatadict_array(arr) ==
    IF arr.t = "array"
    THEN Ok(NdArray(arr.v.typecode, NativeSize(arr.v.typecode),
                    <<Len(arr.v.items)>>, arr.v.items))
    ELSE IF arr.t = "structarray"
    THEN LET i == First(structarray_to_np_map,
                        LAMBDA e : e.types = arr.v.typecodes)
             raw == arr.v.raw_data
         IN  IF i = 0 THEN Err("KeyError")
             ELSE IF raw.t = "none" THEN Err("TypeError")
             ELSE LET w == structarray_to_np_map[i].itemsize IN
                  IF Len(raw.v) % w # 0 THEN Err("ValueError")
                  ELSE Ok(NdArray(structarray_to_np_map[i].char, w,
                                  <<Len(raw.v) \div w>>,
                                  [k \in 1..(Len(raw.v) \div w) |->
                                      SubSeq(raw.v, (k - 1) * w + 1, k * w)]))
    ELSE Err("None")

\* the RGB view of line 87: the first three bytes of every int32
imagedatadict_strip_alpha(im) ==
    IF im.shape = <<>> \/ im.items = <<>> THEN Err("ValueError")
    ELSE Ok(NdArray("B", 1, im.shape \o <<3>>,
                    [k \in 1..(3 * Len(im.items)) |->
                        PyInt(IntToLE(im.items[(k + 2) \div 3], 4)[((k - 1) % 3) + 1])]))

\* the place in dm_image_dtypes of imdict["DataType"], or 0
ImageDataType(imdict) ==
    First(dm_image_dtypes,
          LAMBDA e : NumEq(DictGet(imdict, S("DataType"), PyNone), PyInt(e.key)))

\* the asserts and the reshape, im being the flat array
imagedatadict_shaped(imdict, im) ==
    LET dims == DictGet(imdict, S("Dimensions"), PyNone) IN
    IF dm_image_dtypes[ImageDataType(imdict)].np # dtype_type(im)
    THEN Err("AssertionError")
    ELSE IF ~DictHas(imdict, S("PixelDepth")) THEN Err("KeyError")
    ELSE IF ~NumEq(DictGet(imdict, S("PixelDepth"), PyNone), PyInt(im.itemsize))
    THEN Err("AssertionError")
    ELSE IF ~DictHas(imdict, S("Dimensions")) THEN Err("KeyError")
    ELSE IF dims.t \notin {"list", "tuple"} THEN Err("TypeError")
    ELSE IF \E k \in 1..Len(dims.v) : ~IsInstanceInt(dims.v[k])
    THEN Err("TypeError")
    ELSE LET shape == ReshapeTo(Len(im.items),
                                [k \in 1..Len(dims.v) |->
                                    IntValue(dims.v[Len(dims.v) + 1 - k])])
         IN  IF shape = <<0 - 1>> THEN Err("ValueError")
             ELSE IF dm_image_dtypes[ImageDataType(imdict)].key = 23
             THEN imagedatadict_strip_alpha([im EXCEPT !.shape = shape])
             ELSE Ok([im EXCEPT !.shape = shape])

\* dm_image_dtypes[imdict["DataType"]] comes before im.dtype
imagedatadict_flat(imdict, im) ==
    IF im.err \notin {"", "None"} THEN im
    ELSE IF ImageDataType(imdict) = 0 THEN Err("KeyError")
    ELSE IF im.err = "None" THEN Err("AttributeError")
    ELSE imagedatadict_shaped(imdict, im.val)

imagedatadict_to_ndarray(imdict) ==
    IF imdict.t # "dict" THEN Err("TypeError")
    ELSE IF ~DictHas(imdict, S("Data")) THEN Err("KeyError")
    ELSE imagedatadict_flat(imdict,
                            imagedatadict_array(DictGet(imdict, S("Data"), PyNone)))

----------------------------------------------------------------------------
(* save_image: the tag tree of an image, written by the header codec *)

\* the collaborators' types: Calibration and DataDescriptor
Calibration(offset, scale, units) ==
    [t |-> "Calibration", v |-> [offset |-> offset, scale |-> scale, units |-> units]]
DataDescriptor(is_sequence, collection_dimension_count, datum_dimension_count) ==
    [is_sequence |-> is_sequence,
     collection_dimension_count |-> collection_dimension_count,
     datum_dimension_count |-> datum_dimension_count]

\* a datetime of whole seconds, by its isoformat()
Datetime(iso) == [t |-> "datetime", v |-> iso]

\* modified.strftime("%x") and modified.strftime("%X") in the C locale
strftime_x(d) ==
    PyStr(SubSeq(d.v, 6, 7) \o <<47>> \o SubSeq(d.v, 9, 10) \o <<47>> \o SubSeq(d.v, 3, 4))
strftime_X(d) == PyStr(SubSeq(d.v, 12, 19))

\* lines 267-276: the locals of save_image
save_image_locals(xdata) ==
    [data |-> xdata.data,
     data_descriptor |-> xdata.data_descriptor,
     dimensional_calibrations |-> xdata.dimensional_calibrations,
     intensity_calibration |-> xdata.intensity_calibration,
     metadata |-> xdata.metadata,
     modified |-> xdata.timestamp,
     timezone |-> xdata.timezone,
     timezone_offset |-> xdata.timezone_offset,
     needs_slice |-> FALSE,
     is_sequence |-> FALSE,
     err |-> ""]

\* lines 278-280: a collection of spectra, of three axes
save_image_spectra3(x) ==
    IF ~(/\ Len(x.data.shape) = 3
         /\ dtype_type(x.data) # "uint8"
         /\ x.data_descriptor.datum_dimension_count = 1)
    THEN x
    ELSE IF Len(x.dimensional_calibrations) < 3 THEN [x EXCEPT !.err = "IndexError"]
    ELSE [x EXCEPT !.data = moveaxis(x.data, 2, 0),
                   !.dimensional_calibrations =
                       <<x.dimensional_calibrations[3]>>
                       \o SubSeq(x.dimensional_calibrations, 1, 2)]

\* lines 281-287: spectra of two axes
save_image_spectra2(x) ==
    IF x.err # "" THEN x
    ELSE IF ~(/\ Len(x.data.shape) = 2
              /\ dtype_type(x.data) # "uint8"
              /\ x.data_descriptor.datum_dimension_count = 1)
    THEN x
    ELSE IF Len(x.dimensional_calibrations) < 2 THEN [x EXCEPT !.err = "IndexError"]
    ELSE [x EXCEPT !.is_sequence = x.data_descriptor.is_sequence,
                   !.data = expand_dims(moveaxis(x.data, 1, 0), 1),
                   !.dimensional_calibrations =
                       << x.dimensional_calibrations[2],
                          Calibration(F0, F1, S("")),
                          x.dimensional_calibrations[1] >>,
                   !.data_descriptor = DataDescriptor(FALSE, 2, 1),
                   !.needs_slice = TRUE]

\* lines 295-301 and 304-311: the tags of one calibration
calibration_dict(c) ==
    PyDict(<< <<S("Origin"),
                IF ~IsZeroF(c.v.scale.v) THEN FDiv(FNeg(c.v.offset), c.v.scale)
                ELSE F0>>,
              <<S("Scale"), c.v.scale>>,
              <<S("Units"), c.v.units>> >>)

\* lines 291-302
save_image_dimension(x, data_dict) ==
    IF /\ x.dimensional_calibrations # <<>>
       /\ Len(x.dimensional_calibrations) = Len(x.data.shape)
    THEN DictPutIn(data_dict, S("Calibrations"), S("Dimension"),
            PyList([i \in 1..Len(x.dimensional_calibrations) |->
                calibration_dict(
                    x.dimensional_calibrations[
                        Len(x.dimensional_calibrations) + 1 - i])]))
    ELSE data_dict

\* lines 303-311
save_image_brightness(x, data_dict) ==
    IF x.intensity_calibration.t # "none"
    THEN DictPutIn(data_dict, S("Calibrations"), S("Brightness"),
                   calibration_dict(x.intensity_calibration))
    ELSE data_dict

\* lines 312-326: the DataBar, tzname being what pytz makes of the timezone
\* (None when it raises)
save_image_timezone_str(x, tzname) ==
    IF Truthy(x.timezone) /\ tzname.t # "none" THEN tzname
    ELSE IF Truthy(x.timezone_offset) THEN x.timezone_offset
    ELSE PyNone

save_image_databar(x, timezone_str) ==
    PyDict(<< <<S("Acquisition Date"), strftime_x(x.modified)>>,
              <<S("Acquisition Time"),
                PyStr(strftime_X(x.modified).v
                      \o (IF timezone_str.t = "none" THEN <<>>
                          ELSE Text[" "] \o timezone_str.v))>> >>)

\* metadata.get("hardware_source", dict()).get("signal_type", "").lower()
signal_type(metadata) ==
    Lower(DictGet(DictGet(metadata, S("hardware_source"), PyDict(<<>>)),
                  S("signal_type"), S("")).v)

\* dm_metadata.setdefault("Meta Data", dict())[k] = v
SetMetaData(x, k, v) ==
    [x EXCEPT !.dm_metadata = DictPutIn(x.dm_metadata, S("Meta Data"), k, v)]

\* lines 335-343
save_image_signal(x) ==
    IF signal_type(x.metadata) = Text["eels"]
    THEN IF \/ Len(x.data.shape) = 1
            \/ Len(x.data.shape) = 2 /\ x.data.shape[1] = 1
         THEN SetMetaData(SetMetaData(x, S("Format"), S("Spectrum")),
                          S("Signal"), S("EELS"))
         ELSE x
    ELSE IF /\ x.data_descriptor.collection_dimension_count = 2
            /\ x.data_descriptor.datum_dimension_count = 1
    THEN [SetMetaData(SetMetaData(x, S("Format"), S("Spectrum image")),
                      S("Signal"), S("EELS"))
            EXCEPT !.needs_slice = TRUE]
    ELSE x

\* lines 344-346
save_image_format(x) ==
    IF x.data_descriptor.datum_dimension_count = 1
    THEN SetMetaData(x, S("Format"),
                     IF x.data_descriptor.collection_dimension_count = 2
                     THEN S("Spectrum image") ELSE S("Spectrum"))
    ELSE x

\* line 347
save_image_summed(x) ==
    \/ (IF x.data_descriptor.is_sequence THEN 1 ELSE 0)
        + x.data_descriptor.collection_dimension_count = 1
    \/ x.needs_slice

\* lines 348-349
save_image_sequence(x) ==
    IF save_image_summed(x) /\ (x.data_descriptor.is_sequence \/ x.is_sequence)
    THEN SetMetaData(x, S("IsSequence"), PyBool(TRUE))
    ELSE x

\* lines 354-359
save_image_stamps(x) ==
    [x EXCEPT !.dm_metadata =
        DictUpdate(x.dm_metadata,
            (IF x.modified.t # "none"
             THEN << <<S("Timestamp"), PyStr(x.modified.v)>> >> ELSE <<>>)
            \o (IF Truthy(x.timezone)
                THEN << <<S("Timezone"), x.timezone>> >> ELSE <<>>)
            \o (IF Truthy(x.timezone_offset)
                THEN << <<S("TimezoneOffset"), x.timezone_offset>> >> ELSE <<>>))]

\* lines 328 and 350
ImageSourceList(x) ==
    IF save_image_summed(x)
    THEN PyList(<< PyDict(<< <<S("ClassName"), S("ImageSource:Summed")>>,
                             <<S("Do Sum"), PyBool(TRUE)>>,
                             <<S("Id"), PyList(<<PyInt(0)>>)>>,
                             <<S("ImageRef"), PyInt(0)>>,
                             <<S("LayerEnd"), PyInt(0)>>,
                             <<S("LayerStart"), PyInt(0)>>,
                             <<S("Summed Dimension"),
                               PyInt(Len(x.data.shape) - 1)>> >>) >>)
    ELSE PyList(<< PyDict(<< <<S("ClassName"), S("ImageSource:Simple")>>,
                             <<S("Id"), PyList(<<PyInt(0)>>)>>,
                             <<S("ImageRef"), PyInt(0)>> >>) >>)

\* lines 332 and 351-353
DocumentObjectList(x) ==
    PyList(<< PyDict(
        << <<S("ImageSource"), PyInt(0)>>, <<S("AnnotationType"), PyInt(20)>> >>
        \o (IF save_image_summed(x) /\ x.needs_slice
            THEN << <<S("AnnotationGroupList"),
                      PyList(<< PyDict(<<
                          <<S("AnnotationType"), PyInt(23)>>,
                          <<S("Name"), S("SICursor")>>,
                          <<S("Rectangle"),
                            PyTuple(<<PyInt(0), PyInt(0), PyInt(1), PyInt(1)>>)>>
                      >>) >>)>>,
                   <<S("ImageDisplayType"), PyInt(1)>> >>
            ELSE <<>>)) >>)

\* the tree ret of lines 289-361, x being the locals with dm_metadata
\* complete and data_dict the ImageData with its calibrations
save_image_ret(x, data_dict, tzname) ==
    PyDict(
        << <<S("ImageList"),
             PyList(<< PyDict(<< <<S("ImageData"), data_dict>>,
                                 <<S("ImageTags"), x.dm_metadata>> >>) >>)>> >>
        \o (IF x.modified.t # "none"
            THEN << <<S("DataBar"),
                      save_image_databar(x, save_image_timezone_str(x, tzname))>> >>
            ELSE <<>>)
        \o << <<S("ImageSourceList"), ImageSourceList(x)>>,
              <<S("DocumentObjectList"), DocumentObjectList(x)>>,
              <<S("Image Behavior"),
                PyDict(<< <<S("ViewDisplayID"), PyInt(8)>> >>)>>,
              <<S("InImageMode"), PyBool(TRUE)>> >>)

\* from the ImageData d, [err, val], to the tree: [err, val]
save_image_tree(x, d, tzname) ==
    IF d.err # "" THEN d
    ELSE Ok(save_image_ret(
            save_image_stamps(save_image_sequence(save_image_format(
                save_image_signal([x EXCEPT !.dm_metadata = x.metadata])))),
            save_image_brightness(x, save_image_dimension(x, d.val)),
            tzname))

save_image_moved(x, tzname) ==
    IF x.err # "" THEN Err(x.err)
    ELSE save_image_tree([dm_metadata |-> PyNone] @@ x,
                         ndarray_to_imagedatadict(x.data), tzname)

\* the stream after parse_dm_header, or with what was raised before it
save_image_write(s, file_version, ret) ==
    IF ret.err # "" THEN Raise(s, ret.err)
    ELSE parse_dm_header_write(s, file_version, ret.val)

save_image(xdata, s, file_version, tzname) ==
    save_image_write(
        s, file_version,
        save_image_moved(save_image_spectra2(save_image_spectra3(
            save_image_locals(xdata))), tzname))

----------------------------------------------------------------------------
(* load_image: the tag tree read by the header codec, as an image *)

\* bytes.decode("utf-16") of the code units: a byte order mark is taken off,
\* and U+FFFE in its place reads the rest the other way round
utf16_decode(units) ==
    IF units # <<>> /\ units[1] = 65279
    THEN utf16_decode_units(Tail(units))
    ELSE IF units # <<>> /\ units[1] = 65534
    THEN utf16_decode_units([i \in 1..(Len(units) - 1) |->
                                (units[i + 1] % 256) * 256 + units[i + 1] \div 256])
    ELSE utf16_decode_units(units)

\* the first of the results that raised, or all their values
FirstErr(rs) == First(rs, LAMBDA r : r.err # "")

fix_strings_array(d) ==
    IF d.v.typecode = "H"
    THEN LET r == utf16_decode([i \in 1..Len(d.v.items) |-> IntValue(d.v.items[i])])
         IN  IF r.err # "" THEN Err(r.err) ELSE Ok(PyStr(r.cps))
    ELSE Ok(PyList(d.v.items))

fix_strings_dict(d, rs) ==
    IF FirstErr(rs) # 0 THEN rs[FirstErr(rs)]
    ELSE Ok(PyDict([i \in 1..Len(rs) |-> <<d.v[i][1], rs[i].val>>]))

fix_strings_list(rs) ==
    IF FirstErr(rs) # 0 THEN rs[FirstErr(rs)]
    ELSE Ok(PyList([i \in 1..Len(rs) |-> rs[i].val]))

RECURSIVE fix_strings(_)
fix_strings(d) ==
    IF d.t = "dict"
    THEN fix_strings_dict(d, [i \in 1..Len(d.v) |->
                                 IF d.v[i][1] # S("Data") THEN fix_strings(d.v[i][2])
                                 ELSE Ok(d.v[i][2])])
    ELSE IF d.t = "list"
    THEN fix_strings_list([i \in 1..Len(d.v) |-> fix_strings(d.v[i])])
    ELSE IF d.t = "array" THEN fix_strings_array(d)
    ELSE Ok(d)

\* d[k] for a text k: [err, val]
GetItem(d, k) ==
    IF d.t = "dict"
    THEN IF DictHas(d, k) THEN Ok(DictGet(d, k, PyNone)) ELSE Err("KeyError")
    ELSE Err("TypeError")

\* d[-1]: [err, val]
GetLast(d) ==
    IF d.t \in {"list", "tuple"}
    THEN IF d.v = <<>> THEN Err("IndexError") ELSE Ok(d.v[Len(d.v)])
    ELSE IF d.t = "str"
    THEN IF d.v = <<>> THEN Err("IndexError") ELSE Ok(PyStr(<<d.v[Len(d.v)]>>))
    ELSE IF d.t = "dict" THEN Err("KeyError")
    ELSE Err("TypeError")

\* d.get(k, default) for a text k: [err, val]
Get(d, k, default) ==
    IF d.t = "dict" THEN Ok(DictGet(d, k, default)) ELSE Err("AttributeError")

\* -origin * scale: [err, val]
calibration_offset(origin, scale) ==
    IF origin.t = "float" /\ scale.t = "float" THEN Ok(FMul(FNeg(origin), scale))
    ELSE IF IsInstanceInt(origin) /\ IsInstanceInt(scale)
    THEN Ok(PyInt(0 - IntValue(origin) * IntValue(scale)))
    ELSE IF IsInstanceInt(origin) /\ scale.t = "float"
    THEN Ok(FMul(FNeg(PyFloat(IntToF64(AsInt(origin)))), scale))
    ELSE IF origin.t = "float" /\ IsInstanceInt(scale)
    THEN Ok(FMul(FNeg(origin), PyFloat(IntToF64(AsInt(scale)))))
    ELSE Err("TypeError")

\* lines 189-190 and 213-214: the triple of one calibration's tags
calibration_triple(tags) ==
    IF tags.t # "dict" THEN Err("AttributeError")
    ELSE LET c == calibration_offset(DictGet(tags, S("Origin"), F0),
                                     DictGet(tags, S("Scale"), F1))
         IN  IF c.err # "" THEN c
             ELSE Ok(<<c.val, DictGet(tags, S("Scale"), F1),
                       DictGet(tags, S("Units"), S(""))>>)

\* what iterating d yields
Iterate(d) ==
    IF d.t \in {"list", "tuple"} THEN Ok(d.v)
    ELSE IF d.t = "dict" THEN Ok([i \in 1..Len(d.v) |-> d.v[i][1]])
    ELSE IF d.t = "str" THEN Ok([i \in 1..Len(d.v) |-> PyStr(<<d.v[i]>>)])
    ELSE Err("TypeError")

\* lines 188-191: the calibrations of the dimensions, reversed
load_image_triples(rs) ==
    IF FirstErr(rs) # 0 THEN rs[FirstErr(rs)]
    ELSE Ok(Reverse([i \in 1..Len(rs) |-> rs[i].val]))

load_image_dimensions(dims) ==
    IF dims.err # "" THEN dims
    ELSE load_image_triples([i \in 1..Len(dims.val) |->
                                calibration_triple(dims.val[i])])

load_image_dimension(dimension) ==
    IF dimension.err # "" THEN dimension
    ELSE load_image_dimensions(Iterate(dimension.val))

\* lines 186-191, y holding image_tags and data
load_image_calibrations(y) ==
    LET calibration_tags ==
            DictGet(y.image_data, S("Calibrations"), PyDict(<<>>))
        c == load_image_dimension(
                Get(calibration_tags, S("Dimension"), PyList(<<>>)))
    IN  IF y.err # "" THEN y
        ELSE IF c.err # "" THEN [y EXCEPT !.err = c.err]
        ELSE [y EXCEPT !.calibration_tags = calibration_tags,
                       !.calibrations = c.val]

\* lines 184-185
load_image_data(image_tags, image_data, im) ==
    [err |-> IF image_tags.err # "" THEN image_tags.err
             ELSE IF image_data.err # "" THEN image_data.err
             ELSE im.err,
     image_tags |-> image_tags.val,
     image_data |-> image_data.val,
     data |-> im.val,
     calibration_tags |-> PyNone,
     calibrations |-> <<>>,
     data_descriptor |-> DataDescriptor(FALSE, 0, 0),
     intensity |-> <<>>,
     properties |-> PyDict(<<>>),
     timestamp |-> PyNone,
     timezone |-> PyNone,
     timezone_offset |-> PyNone]

load_image_imagedata(image_tags, image_data) ==
    load_image_data(
        image_tags, image_data,
        IF image_data.err # "" THEN image_data
        ELSE imagedatadict_to_ndarray(image_data.val))

load_image_tags(image_tags) ==
    load_image_imagedata(
        image_tags,
        IF image_tags.err # "" THEN image_tags
        ELSE GetItem(image_tags.val, S("ImageData")))

load_image_list(image_list) ==
    load_image_tags(IF image_list.err # "" THEN image_list
                    ELSE GetLast(image_list.val))

\* lines 181-184
load_image_fixed(dmtag) ==
    load_image_list(IF dmtag.err # "" THEN dmtag
                    ELSE GetItem(dmtag.val, S("ImageList")))

\* image_tags['ImageTags'].get('Meta Data', dict()): [err, val]
MetaData(image_tags) ==
    IF ~DictHas(image_tags, S("ImageTags")) THEN Err("KeyError")
    ELSE Get(DictGet(image_tags, S("ImageTags"), PyNone), S("Meta Data"),
             PyDict(<<>>))

\* ...get("Format", str()).lower() in ("spectrum", "spectrum image"):
\* [err, val], val a truth value
IsSpectrumFormat(meta_data) ==
    IF meta_data.err # "" THEN meta_data
    ELSE IF meta_data.val.t # "dict" THEN Err("AttributeError")
    ELSE IF DictGet(meta_data.val, S("Format"), S("")).t # "str"
    THEN Err("AttributeError")
    ELSE Ok(Lower(DictGet(meta_data.val, S("Format"), S("")).v)
                \in {Text["spectrum"], Text["spectrum image"]})

\* lines 193-204, a data of three axes that is not uint8
load_image_rank3(y, spectrum) ==
    IF spectrum.err # "" THEN [y EXCEPT !.err = spectrum.err]
    ELSE IF ~spectrum.val
    THEN [y EXCEPT !.data_descriptor = DataDescriptor(FALSE, 1, 2)]
    ELSE IF y.data.shape[2] = 1
    THEN IF Len(y.calibrations) < 3 THEN [y EXCEPT !.err = "IndexError"]
         ELSE [y EXCEPT !.data = moveaxis(squeeze(y.data, 1), 0, 1),
                        !.data_descriptor = DataDescriptor(FALSE, 1, 1),
                        !.calibrations = <<y.calibrations[3], y.calibrations[1]>>]
    ELSE IF y.calibrations = <<>> THEN [y EXCEPT !.err = "IndexError"]
    ELSE [y EXCEPT !.data = moveaxis(y.data, 0, 2),
                   !.data_descriptor = DataDescriptor(FALSE, 2, 1),
                   !.calibrations = Tail(y.calibrations) \o <<y.calibrations[1]>>]

\* lines 192-211
load_image_descriptor(y) ==
    IF y.err # "" THEN y
    ELSE IF Len(y.data.shape) = 3 /\ dtype_type(y.data) # "uint8"
    THEN load_image_rank3(y, IsSpectrumFormat(MetaData(y.image_tags)))
    ELSE IF Len(y.data.shape) = 4 /\ dtype_type(y.data) # "uint8"
    THEN [y EXCEPT !.data_descriptor = DataDescriptor(FALSE, 2, 2)]
    ELSE IF dtype_type(y.data) = "uint8"
    THEN [y EXCEPT !.data_descriptor =
            DataDescriptor(FALSE, 0,
                           IF y.data.shape = <<>> THEN 0
                           ELSE Len(y.data.shape) - 1)]
    ELSE [y EXCEPT !.data_descriptor = DataDescriptor(FALSE, 0, Len(y.data.shape))]

\* lines 212-214
load_image_intensity(y, brightness) ==
    IF brightness.err # "" THEN [y EXCEPT !.err = brightness.err]
    ELSE [y EXCEPT !.intensity = brightness.val]

load_image_brightness(y) ==
    IF y.err # "" THEN y
    ELSE load_image_intensity(
            y, calibration_triple(DictGet(y.calibration_tags, S("Brightness"),
                                          PyDict(<<>>))))

\* float(x): [err, val]; a text is taken to spell no number
float(x) ==
    IF x.t = "float" THEN Ok(x)
    ELSE IF IsInstanceInt(x)
    THEN IF IntToF64(AsInt(x)) = <<>> THEN Err("OverflowError")
         ELSE Ok(PyFloat(IntToF64(AsInt(x))))
    ELSE IF x.t = "str" THEN Err("ValueError")
    ELSE Err("TypeError")

\* lines 221-223
load_image_voltage(y, voltage) ==
    IF y.err # "" THEN y
    ELSE IF voltage.err # "" THEN [y EXCEPT !.err = voltage.err]
    ELSE IF ~Truthy(voltage.val) THEN y
    ELSE IF float(voltage.val).err # ""
    THEN [y EXCEPT !.err = float(voltage.val).err]
    ELSE [y EXCEPT !.properties =
            DictPutIn(y.properties, S("hardware_source"), S("autostem"),
                      PyDict(<< <<S("high_tension"), float(voltage.val).val>> >>))]

\* x.get('EHT', dict()): [err, val]
GetEHT(image_scanned) ==
    IF image_scanned.err # "" THEN image_scanned
    ELSE Get(image_scanned.val, S("EHT"), PyDict(<<>>))

\* lines 224-226
load_image_signal(y, meta_data) ==
    IF y.err # "" THEN y
    ELSE IF meta_data.err # "" THEN [y EXCEPT !.err = meta_data.err]
    ELSE IF meta_data.val.t # "dict" THEN [y EXCEPT !.err = "AttributeError"]
    ELSE LET dm_metadata_signal == DictGet(meta_data.val, S("Signal"), PyNone) IN
         IF ~Truthy(dm_metadata_signal) THEN y
         ELSE IF dm_metadata_signal.t # "str"
         THEN [y EXCEPT !.err = "AttributeError"]
         ELSE IF Lower(dm_metadata_signal.v) # Text["eels"] THEN y
         ELSE [y EXCEPT !.properties =
                 DictPutIn(y.properties, S("hardware_source"), S("signal_type"),
                           dm_metadata_signal)]

\* lines 227-229
load_image_format(y, spectrum) ==
    IF y.err # "" THEN y
    ELSE IF spectrum.err # "" THEN [y EXCEPT !.err = spectrum.err]
    ELSE IF ~spectrum.val THEN y
    ELSE [y EXCEPT !.data_descriptor =
            DataDescriptor(
                y.data_descriptor.is_sequence,
                y.data_descriptor.collection_dimension_count
                    + y.data_descriptor.datum_dimension_count - 1,
                1)]

\* is_sequence set, the count of collection dimensions left as it is
load_image_sequence_kept(y, meta_data) ==
    IF y.err # "" THEN y
    ELSE IF /\ Truthy(DictGet(meta_data.val, S("IsSequence"), PyBool(FALSE)))
            /\ y.data_descriptor.collection_dimension_count > 0
    THEN [y EXCEPT !.data_descriptor =
            DataDescriptor(TRUE,
                           y.data_descriptor.collection_dimension_count,
                           y.data_descriptor.datum_dimension_count)]
    ELSE y

\* lines 230-232
load_image_sequence(y, meta_data) ==
    IF y.err # "" THEN y
    ELSE IF /\ Truthy(DictGet(meta_data.val, S("IsSequence"), PyBool(FALSE)))
            /\ y.data_descriptor.collection_dimension_count > 0
    THEN [y EXCEPT !.data_descriptor =
            DataDescriptor(TRUE,
                           y.data_descriptor.collection_dimension_count - 1,
                           y.data_descriptor.datum_dimension_count)]
    ELSE y

\* strptime with "%Y-%m-%dT%H:%M:%S" takes the text, in the padded form that
\* isoformat() gives
IsIsoSeconds(cps) ==
    /\ Len(cps) = 19
    /\ \A i \in {1, 2, 3, 4, 6, 7, 9, 10, 12, 13, 15, 16, 18, 19} :
          cps[i] >= 48 /\ cps[i] <= 57
    /\ cps[5] = 45 /\ cps[8] = 45 /\ cps[11] = 84 /\ cps[14] = 58 /\ cps[17] = 58
    /\ (cps[6] - 48) * 10 + cps[7] - 48 \in 1..12
    /\ (cps[9] - 48) * 10 + cps[10] - 48 \in 1..31
    /\ (cps[12] - 48) * 10 + cps[13] - 48 \in 0..23
    /\ (cps[15] - 48) * 10 + cps[16] - 48 \in 0..59
    /\ (cps[18] - 48) * 10 + cps[19] - 48 \in 0..61

\* the fraction ".%f" of a text of 23 or 26 characters
IsIsoFraction(cps) ==
    /\ cps[20] = 46
    /\ \A i \in 21..Len(cps) : cps[i] >= 48 /\ cps[i] <= 57

\* the datetime of seconds and a fraction, by its isoformat()
DatetimeOf(cps) ==
    IF \A i \in 21..Len(cps) : cps[i] = 48 THEN Datetime(SubSeq(cps, 1, 19))
    ELSE Datetime(cps \o [i \in 1..(26 - Len(cps)) |-> 48])

\* lines 30-35: [err, val]
get_datetime_from_timestamp_str(timestamp_str) ==
    IF timestamp_str.t \notin {"str", "list", "tuple", "dict", "array", "bytes"}
    THEN Err("TypeError")
    ELSE IF timestamp_str.t = "array"
    THEN IF Len(timestamp_str.v.items) \in {19, 23, 26} THEN Err("TypeError")
         ELSE Ok(PyNone)
    ELSE IF Len(timestamp_str.v) \notin {19, 23, 26} THEN Ok(PyNone)
    ELSE IF timestamp_str.t # "str" THEN Err("TypeError")
    ELSE IF ~IsIsoSeconds(SubSeq(timestamp_str.v, 1, 19)) THEN Err("ValueError")
    ELSE IF Len(timestamp_str.v) = 19 THEN Ok(Datetime(timestamp_str.v))
    ELSE IF IsIsoFraction(timestamp_str.v) THEN Ok(DatetimeOf(timestamp_str.v))
    ELSE Err("ValueError")

\* lines 233-235
load_image_timestamp(y, timestamp_str) ==
    IF y.err # "" \/ ~Truthy(timestamp_str) THEN y
    ELSE IF get_datetime_from_timestamp_str(timestamp_str).err # ""
    THEN [y EXCEPT !.err = get_datetime_from_timestamp_str(timestamp_str).err]
    ELSE [y EXCEPT !.timestamp = get_datetime_from_timestamp_str(timestamp_str).val]

\* lines 236-243
load_image_properties(y, tags) ==
    IF y.err # "" THEN y
    ELSE [y EXCEPT
            !.timezone = DictGet(tags, S("Timezone"), PyNone),
            !.timezone_offset = DictGet(tags, S("TimezoneOffset"), PyNone),
            !.properties =
                DictUpdate(y.properties,
                           DictPop(DictPop(DictPop(tags, S("Timestamp")),
                                           S("Timezone")),
                                   S("TimezoneOffset")).v)]

\* lines 220-243, tags being image_tags['ImageTags']
load_image_imagetags(y, tags) ==
    load_image_properties(
        load_image_timestamp(
            load_image_sequence(
                load_image_format(
                    load_image_signal(
                        load_image_voltage(
                            y, GetEHT(Get(tags, S("ImageScanned"), PyDict(<<>>)))),
                        MetaData(y.image_tags)),
                    IsSpectrumFormat(MetaData(y.image_tags))),
                MetaData(y.image_tags)),
            DictGet(tags, S("Timestamp"), PyNone)),
        tags)

load_image_tagged(y) ==
    IF y.err # "" \/ ~DictHas(y.image_tags, S("ImageTags")) THEN y
    ELSE load_image_imagetags(y, DictGet(y.image_tags, S("ImageTags"), PyNone))

\* data_descriptor.expected_dimension_count
expected_dimension_count(d) ==
    (IF d.is_sequence THEN 1 ELSE 0) + d.collection_dimension_count
        + d.datum_dimension_count

\* lines 244-255: what load_image returns, [err, val]
load_image_result(y) ==
    IF y.err # "" THEN Err(y.err)
    ELSE Ok([data |-> y.data,
             data_descriptor |-> y.data_descriptor,
             dimensional_calibrations |->
                 [i \in 1..Len(y.calibrations) |->
                     Calibration(y.calibrations[i][1], y.calibrations[i][2],
                                 y.calibrations[i][3])]
                 \o [i \in 1..(expected_dimension_count(y.data_descriptor)
                                  - Len(y.calibrations)) |->
                        Calibration(F0, F1, S(""))],
             intensity_calibration |->
                 Calibration(y.intensity[1], y.intensity[2], y.intensity[3]),
             metadata |-> y.properties,
             timestamp |-> y.timestamp,
             timezone |-> y.timezone,
             timezone_offset |-> y.timezone_offset])

\* lines 180-181
load_image_header(h) ==
    IF h.s.err # "" THEN Err(h.s.err) ELSE fix_strings(h.val)

\* [ret, s]: what is returned or raised, and the stream afterwards
load_image_read(h) ==
    [s |-> [h.s EXCEPT !.err = ""],
     ret |-> load_image_result(load_image_tagged(load_image_brightness(
                load_image_descriptor(load_image_calibrations(
                    load_image_fixed(load_image_header(h)))))))]

load_image(s) == load_image_read(parse_dm_header_read(s))

----------------------------------------------------------------------------
(* Images saved and loaded: save_image(xdata, s, version), s.seek(0),      *)
(* load_image(s), as the tests of dm3parser_test.py do                     *)

\* an array of the given type and shape whose items all differ
ImageItem(char, k) ==
    CASE char = "F" -> <<k, 0, 128, 63, 0, 0, 0, 64>>
      [] char = "D" -> <<k, 0, 0, 0, 0, 0, 240, 63, 0, 0, 0, 0, 0, 0, 0, 64>>
      [] char \in {"f", "d"} -> PyFloat(IntToF64(PyInt(k)))
      [] OTHER -> PyInt(k)

ImageItemSize(char) ==
    CASE char = "D" -> 16
      [] char \in {"F", "d"} -> 8
      [] char \in {"f", "i", "I"} -> 4
      [] char \in {"h", "H"} -> 2
      [] OTHER -> 1

NewArray(char, shape) ==
    NdArray(char, ImageItemSize(char), shape,
            [k \in 1..Prod(shape) |-> ImageItem(char, k)])

\* the calibrations of the tests, and two more: (0.7, 0.3), whose origin is
\* no exact quotient, and (1.0, 0.0), of scale 0
TestCalibrations ==
    << Calibration(PyFloat(<<63, 240, 0, 0, 0, 0, 0, 0>>),
                   PyFloat(<<64, 0, 0, 0, 0, 0, 0, 0>>), S("nm")),
       Calibration(PyFloat(<<64, 0, 0, 0, 0, 0, 0, 0>>),
                   PyFloat(<<64, 8, 0, 0, 0, 0, 0, 0>>), S("um")),
       Calibration(PyFloat(<<63, 241, 153, 153, 153, 153, 153, 154>>),
                   PyFloat(<<64, 0, 204, 204, 204, 204, 204, 205>>), S("nm")),
       Calibration(PyFloat(<<64, 17, 153, 153, 153, 153, 153, 154>>),
                   PyFloat(<<64, 22, 0, 0, 0, 0, 0, 0>>), S("six")),
       Calibration(F0, F1, S("")),
       Calibration(PyFloat(<<63, 230, 102, 102, 102, 102, 102, 102>>),
                   PyFloat(<<63, 211, 51, 51, 51, 51, 51, 51>>), S("eV")),
       Calibration(F1, F0, S("nm")) >>

\* shapes and descriptors of test_data_write_read_round_trip, the lengths
\* made small, some of them 1
ImageCases ==
    << [shape |-> <<3>>, d |-> DataDescriptor(FALSE, 0, 1)],
       [shape |-> <<3, 2>>, d |-> DataDescriptor(FALSE, 1, 1)],
       [shape |-> <<2, 3, 2>>, d |-> DataDescriptor(FALSE, 2, 1)],
       [shape |-> <<1, 2, 3>>, d |-> DataDescriptor(FALSE, 2, 1)],
       [shape |-> <<3, 2>>, d |-> DataDescriptor(TRUE, 0, 1)],
       [shape |-> <<3, 2>>, d |-> DataDescriptor(FALSE, 0, 2)],
       [shape |-> <<3, 1, 2>>, d |-> DataDescriptor(FALSE, 1, 2)],
       [shape |-> <<2, 1, 2, 3>>, d |-> DataDescriptor(FALSE, 2, 2)],
       [shape |-> <<3, 2, 1>>, d |-> DataDescriptor(TRUE, 0, 2)] >>

ImageChars == {"f", "F", "h", "I"}

\* new_data_and_metadata(...)
NewImage(array, d, dims, intensity, metadata, timestamp, timezone, offset) ==
    [data |-> array,
     data_descriptor |-> d,
     dimensional_calibrations |-> dims,
     intensity_calibration |-> intensity,
     metadata |-> metadata,
     timestamp |-> timestamp,
     timezone |-> timezone,
     timezone_offset |-> offset]

PyFloatOf(k) == PyFloat(IntToF64(PyInt(k)))

\* the metadata of the tests, and more of the kinds the tests name
TestMetadata ==
    << PyDict(<<>>),
       PyDict(<< <<S("abc"), PyInt(1)>>, <<S("def"), S("abc")>> >>),
       PyDict(<< <<S("efg"),
                   PyDict(<< <<S("one"), PyInt(1)>>, <<S("two"), S("TWO")>>,
                             <<S("three"),
                               PyList(<<PyInt(3), PyInt(4), PyInt(5)>>)>> >>)>> >>),
       PyDict(<< <<S("four"), PyTuple(<<PyInt(32), PyInt(32)>>)>>,
                 <<S("six"),
                   PyTuple(<< PyTuple(<<PyInt(1), PyInt(2)>>),
                              PyTuple(<<PyInt(3), PyInt(4)>>) >>)>>,
                 <<S("sevenf"),
                   PyList(<< PyList(<<PyFloatOf(1), PyFloatOf(2)>>),
                             PyList(<<PyFloatOf(3), PyFloatOf(4)>>) >>)>> >>),
       PyDict(<< <<S("abc"), PyNone>>, <<S(""), S("")>>,
                 <<S("one"), PyList(<<>>)>>, <<S("two"), PyDict(<<>>)>>,
                 <<S("three"), PyList(<<PyInt(1), PyNone, PyInt(2)>>)>> >>),
       PyDict(<< <<S("abc"), PyIntB(FALSE, <<255, 15, 165, 212, 232>>)>> >>),
       PyDict(<< <<S("eight"),
                   PyTuple(<<PyInt(1), PyInt(2), PyInt(3), PyInt(4)>>)>> >>),
       PyDict(<< <<S("hardware_source"),
                   PyDict(<< <<S("signal_type"), S("EELS")>> >>)>> >>),
       PyDict(<< <<S("Timestamp"), S("abc")>> >>) >>

\* the timestamps of test_data_timestamp_write_read_round_trip, or none
TestTimes ==
    << [timestamp |-> PyNone, timezone |-> PyNone, offset |-> PyNone],
       [timestamp |-> Datetime(Text["2013-11-18T14:05:04"]),
        timezone |-> S("America/Los_Angeles"), offset |-> S("-0700")],
       [timestamp |-> Datetime(Text["2013-11-18T14:05:04"]),
        timezone |-> PyNone, offset |-> S("-0700")] >>

InitImageState(file_version, xdata) ==
    /\ version = 3 /\ size_type = "L"
    /\ f = [buf |-> <<>>, pos |-> 0]
    /\ pc = "start"
    /\ func = "image"
    /\ tid = file_version
    /\ data = xdata
    /\ wret = NoWret
    /\ rret = NoRret

\* arrays of every case, calibrated along every axis
InitImageArrays ==
    \E file_version \in {3, 4} : \E char \in ImageChars :
    \E c \in 1..Len(ImageCases) :
        InitImageState(
            file_version,
            NewImage(NewArray(char, ImageCases[c].shape), ImageCases[c].d,
                     SubSeq(TestCalibrations, 1, Len(ImageCases[c].shape)),
                     TestCalibrations[4], PyDict(<<>>), PyNone, PyNone, PyNone))

\* spectra with the signal type of lines 336-339
InitImageSpectra ==
    \E file_version \in {3, 4} : \E char \in {"f", "F"} :
    \E shape \in {<<3>>, <<1, 3>>, <<2, 3>>} :
        InitImageState(
            file_version,
            NewImage(NewArray(char, shape),
                     DataDescriptor(FALSE, Len(shape) - 1, 1),
                     SubSeq(TestCalibrations, 1, Len(shape)),
                     TestCalibrations[4], TestMetadata[8], PyNone, PyNone, PyNone))

\* images of two axes with every calibration
InitImageCalibrations ==
    \E file_version \in {3, 4} : \E char \in {"f", "F"} :
    \E i, j \in 1..Len(TestCalibrations) :
        InitImageState(
            file_version,
            NewImage(NewArray(char, <<1, 2>>), DataDescriptor(FALSE, 0, 2),
                     <<TestCalibrations[i], TestCalibrations[(i % 3) + 1]>>,
                     TestCalibrations[j], PyDict(<<>>), PyNone, PyNone, PyNone))

\* images of two axes with metadata and timestamps
InitImageMetadata ==
    \E file_version \in {3, 4} : \E char \in {"f", "F"} :
    \E m \in 1..Len(TestMetadata) : \E t \in 1..Len(TestTimes) :
        /\ m = 1 \/ t = 1
        /\ InitImageState(
            file_version,
            NewImage(NewArray(char, <<1, 2>>), DataDescriptor(FALSE, 0, 2),
                     <<TestCalibrations[1], TestCalibrations[2]>>,
                     TestCalibrations[4], TestMetadata[m],
                     TestTimes[t].timestamp, TestTimes[t].timezone,
                     TestTimes[t].offset))

\* RGB and RGBA images
InitImageRGB ==
    \E file_version \in {3, 4} : \E shape \in {<<1, 2, 3>>, <<2, 1, 4>>} :
        InitImageState(
            file_version,
            NewImage(NewArray("B", shape), DataDescriptor(FALSE, 0, 2),
                     <<TestCalibrations[1], TestCalibrations[2]>>,
                     TestCalibrations[4], PyDict(<<>>), PyNone, PyNone, PyNone))

InitImage ==
    \/ InitImageArrays
    \/ InitImageSpectra
    \/ InitImageCalibrations
    \/ InitImageMetadata
    \/ InitImageRGB

\* tz.tzname(modified) for the time zones of the tests, or None when pytz
\* is missing or does not know the zone
TzNames == {PyNone, S("PST")}

SaveImage ==
    /\ pc = "start" /\ func = "image"
    /\ \E tzname \in TzNames :
          /\ Truthy(data.timezone) \/ tzname = PyNone
          /\ Written([hdr |-> 0,
                      s |-> save_image(data, Ctx(f, version, size_type), tid,
                                       tzname)])

LoadImageResult(r) ==
    WasRead([val |-> r.ret.val, hdr |-> 0, s |-> Raise(r.s, r.ret.err)])

\* s.seek(0); load_image(s)
LoadImage ==
    /\ pc = "written" /\ func = "image" /\ wret.err = ""
    /\ LoadImageResult(load_image(f_seek(Ctx(f, version, size_type), 0)))

NextImage == SaveImage \/ LoadImage

SpecImage == InitImage /\ [][NextImage]_vars

----------------------------------------------------------------------------
(* Images: what save_image followed by load_image returns *)

\* the ranks and descriptors of test_data_write_read_round_trip
RoundTripCase(xdata) ==
    <<Len(xdata.data.shape), xdata.data_descriptor>> \in
        { <<1, DataDescriptor(FALSE, 0, 1)>>, <<2, DataDescriptor(FALSE, 1, 1)>>,
          <<3, DataDescriptor(FALSE, 2, 1)>>, <<2, DataDescriptor(TRUE, 0, 1)>>,
          <<2, DataDescriptor(FALSE, 0, 2)>>, <<3, DataDescriptor(FALSE, 1, 2)>>,
          <<4, DataDescriptor(FALSE, 2, 2)>>, <<3, DataDescriptor(TRUE, 0, 2)>> }

\* a uint8 array of shape (h, w, 3) or (h, w, 4)
IsRGB(a) ==
    dtype_type(a) = "uint8" /\ Len(a.shape) = 3 /\ a.shape[3] \in {3, 4}

\* Calibration.__eq__
CalibrationEq(a, b) ==
    /\ FloatEq(a.v.offset.v, b.v.offset.v)
    /\ FloatEq(a.v.scale.v, b.v.scale.v)
    /\ a.v.units = b.v.units

CalibrationsEq(a, b) ==
    Len(a) = Len(b) /\ \A i \in 1..Len(a) : CalibrationEq(a[i], b[i])

\* save_image has not raised, and load_image has returned
Loaded ==
    /\ pc \in {"written", "done"} => wret.err = ""
    /\ pc = "done" => rret.err = ""

\* C6: for both format versions and every array of one of the eight
\* rank/descriptor forms, save_image followed by load_image returns data of
\* the same shape and element order, the same descriptor, and the
\* dimensional calibrations attached to the same axes
C6_ImageRoundTrip ==
    (func = "image" /\ RoundTripCase(data)) =>
        /\ Loaded
        /\ pc = "done" =>
              /\ rret.val.data.shape = data.data.shape
              /\ rret.val.data.items = data.data.items
              /\ rret.val.data_descriptor = data.data_descriptor
              /\ CalibrationsEq(rret.val.dimensional_calibrations,
                                data.dimensional_calibrations)

\* C7: a uint8 array of shape (h, w, 3) or (h, w, 4) written by save_image
\* and read by load_image comes back with the same shape and the same
\* channel values in the same order, the alpha channel of a 4-channel array
\* included
C7_RGBRoundTrip ==
    (func = "image" /\ IsRGB(data.data)) =>
        /\ Loaded
        /\ pc = "done" => rret.val.data = data.data

\* the metadata trees of C8: maps, lists, tuples, and integer, float, string
\* or None leaves
RECURSIVE MetadataTree(_)
MetadataTree(x) ==
    CASE x.t = "dict" ->
            \A i \in 1..Len(x.v) :
                /\ x.v[i][1].t = "str"
                /\ \A j \in 1..Len(x.v[i][1].v) : x.v[i][1].v[j] <= 255
                /\ MetadataTree(x.v[i][2])
      [] x.t \in {"list", "tuple"} -> \A i \in 1..Len(x.v) : MetadataTree(x.v[i])
      [] OTHER -> x.t \in {"int", "float", "str", "none"}

\* the tree without its None-valued entries (of maps and of lists) and
\* without the entries of maps under the empty key
RECURSIVE WithoutNone(_)
WithoutNone(x) ==
    CASE x.t = "dict" ->
            PyDict([i \in 1..Len(SelectSeq(x.v, LAMBDA p : p[2].t # "none"
                                                          /\ p[1].v # <<>>)) |->
                <<SelectSeq(x.v, LAMBDA p : p[2].t # "none" /\ p[1].v # <<>>)[i][1],
                  WithoutNone(SelectSeq(x.v, LAMBDA p : p[2].t # "none"
                                                       /\ p[1].v # <<>>)[i][2])>>])
      [] x.t = "list" ->
            PyList([i \in 1..Len(SelectSeq(x.v, LAMBDA e : e.t # "none")) |->
                WithoutNone(SelectSeq(x.v, LAMBDA e : e.t # "none")[i])])
      [] OTHER -> x

\* C8: the metadata load_image returns after save_image, for a metadata tree
\* saved with an image of two axes, equals the input metadata with exactly
\* its None-valued entries and its empty-key entries removed
C8_MetadataFidelity ==
    (func = "image" /\ Len(data.data.shape) = 2 /\ MetadataTree(data.metadata)) =>
        /\ Loaded
        /\ pc = "done" => PyEq(rret.val.metadata, WithoutNone(data.metadata))

\* C10: for every dimensional calibration and intensity calibration, one of
\* scale 0 included, save_image followed by load_image returns calibrations
\* of the same offset, scale and units
C10_CalibrationRoundTrip ==
    func = "image" =>
        /\ Loaded
        /\ pc = "done" =>
              /\ CalibrationsEq(rret.val.dimensional_calibrations,
                                data.dimensional_calibrations)
              /\ CalibrationEq(rret.val.intensity_calibration,
                               data.intensity_calibration)

----------------------------------------------------------------------------
(* The file envelope: what dm_write_header writes and dm_read_header takes *)

\* the trees handed to dm_write_header; the last is no group
HeaderTrees ==
    << PyDict(<<>>),
       PyList(<<TreeLeaves[1]>>),
       PyDict(<< <<TreeKeys[1], TreeLeaves[3]>> >>),
       NestedDict(TreeKeys[1], TreeLeaves[1], TreeKeys[2], TreeLeaves[4]),
       NestedList(TreeLeaves[5], TreeKeys[3], TreeLeaves[3]),
       PyInt(45) >>

\* the module as imported: version = 3, size_type = "L"
ImportGlobals == version = 3 /\ size_type = "L"

\* dm_write_header(f, file_version, tree) as the first codec call of the
\* process
InitHeaderWrite ==
    /\ ImportGlobals
    /\ f \in Streams
    /\ pc = "start" /\ func = "header"
    /\ wret = NoWret /\ rret = NoRret
    /\ tid \in {0, 3, 4}
    /\ \E i \in 1..Len(HeaderTrees) : data = HeaderTrees[i]

\* a file as dm_read_header may be given one: the version tag, a file size,
\* the endianness flag, a root group, and the two fields after it
HeaderFile(ver, endianness, tree, enda, endb) ==
    BE(ver, 4) \o BE(0, IF ver = 4 THEN 8 ELSE 4) \o BE(endianness, 4)
    \o dm_write_tag_root(
           Ctx([buf |-> <<>>, pos |-> 0],
               IF ver = 4 THEN 4 ELSE 3, IF ver = 4 THEN "Q" ELSE "L"),
           tree).buf
    \o BE(enda, 4) \o BE(endb, 4)

\* the file whole, or without its last byte
InitHeaderRead ==
    /\ \E g \in Globals : version = g.version /\ size_type = g.size_type
    /\ pc = "start" /\ func = "header_file"
    /\ wret = NoWret /\ rret = NoRret
    /\ tid = 0
    /\ \E ver \in {2, 3, 4}, endianness \in {0, 1}, enda \in {0, 1},
          endb \in {0, 256}, i \in {1, 3}, cut \in {0, 1} :
          /\ data = HeaderTrees[i]
          /\ f = [buf |-> SubSeq(HeaderFile(ver, endianness, HeaderTrees[i], enda, endb), 1,
                                 Len(HeaderFile(ver, endianness, HeaderTrees[i], enda, endb)) - cut),
                  pos |-> 0]

InitHeader == InitHeaderWrite \/ InitHeaderRead

\* dm_write_header returns nothing
WriteHeader ==
    /\ pc = "start" /\ func = "header"
    /\ Written([hdr |-> 0,
                s |-> dm_write_header(Ctx(f, version, size_type), tid, data)])

ReadHeaderResult(r) == WasRead([val |-> r.val, hdr |-> 0, s |-> r.s])

\* dm_read_header on what dm_write_header wrote
ReadHeader ==
    /\ pc = "written" /\ func = "header" /\ wret.err = ""
    /\ ReadHeaderResult(dm_read_header(Rewound))

\* dm_read_header on a file
ReadHeaderFile ==
    /\ pc = "start" /\ func = "header_file"
    /\ ReadHeaderResult(dm_read_header(Ctx(f, version, size_type)))

\* a later codec call, on another stream: dm_write_tag_root(s2, tree)
LaterTagRootResult(s) ==
    /\ f' = [buf |-> s.buf, pos |-> s.pos]
    /\ version' = s.version
    /\ size_type' = s.size_type
    /\ wret' = [err |-> s.err, hdr |-> 0, start |-> 0, end |-> s.pos]
    /\ pc' = "later"
    /\ UNCHANGED <<func, tid, data, rret>>

LaterTagRoot ==
    /\ pc = "done" /\ func = "header"
    /\ LaterTagRootResult(
           dm_write_tag_root(Ctx([buf |-> <<>>, pos |-> 0], version, size_type),
                             data))

NextHeader == WriteHeader \/ ReadHeader \/ ReadHeaderFile \/ LaterTagRoot

SpecHeader == InitHeader /\ [][NextHeader]_vars

----------------------------------------------------------------------------
(* dm_read_header: what it demands of a file *)

\* the file that was read, field by field
HeaderStart == IF func = "header" THEN wret.start ELSE 0
HeaderVer == UBE(SubSeq(f.buf, HeaderStart + 1, HeaderStart + 4))
HeaderW == IF HeaderVer = 4 THEN 8 ELSE 4
HeaderEndianness ==
    UBE(SubSeq(f.buf, HeaderStart + 5 + HeaderW, HeaderStart + 8 + HeaderW))
HeaderRoot ==
    dm_read_tag_root(
        f_seek(Ctx(f, HeaderVer, IF HeaderVer = 4 THEN "Q" ELSE "L"),
               HeaderStart + 8 + HeaderW))
HeaderRootEnd == HeaderRoot.s.pos
HeaderSentinelsZero ==
    /\ Len(f.buf) >= HeaderRootEnd + 8
    /\ SubSeq(f.buf, HeaderRootEnd + 1, HeaderRootEnd + 8)
           = <<0, 0, 0, 0, 0, 0, 0, 0>>
HeaderWellFormed ==
    /\ HeaderVer \in {3, 4}
    /\ HeaderEndianness = 1
    /\ HeaderRoot.s.err = ""
    /\ HeaderSentinelsZero

\* C11: dm_read_header returns a tree only if the version tag is 3 or 4, the
\* endianness flag is 1 and the two 4-byte fields after the root group are
\* zero; in every other case it raises and returns no tree.
C11_ReadHeaderChecks ==
    (pc = "done" /\ func \in {"header", "header_file"}) =>
        /\ rret.err = "" <=> HeaderWellFormed
        /\ rret.err = "" => rret.val.t \in {"dict", "list"} /\ rret.val = HeaderRoot.val
        /\ rret.err # "" => rret.val = PyNone

\* a version 4 file with a one-entry dict was read
C11_Witness ==
    /\ pc = "done" /\ func = "header_file"
    /\ rret.err = "" /\ HeaderVer = 4
    /\ rret.val = HeaderTrees[3]

----------------------------------------------------------------------------
(* dm_write_header: the bytes it leaves on an empty stream *)

\* the root group as dm_write_tag_root writes it under the version the call
\* selects
WrittenRoot ==
    dm_write_tag_root(
        Ctx([buf |-> <<>>, pos |-> 0],
            IF tid = 4 THEN 4 ELSE 3, IF tid = 4 THEN "Q" ELSE "L"),
        data).buf

\* the width of the size field, start_offset and end_offset
WrittenW == IF tid = 4 THEN 8 ELSE 4
WrittenStart == 8 + WrittenW
WrittenEnd == Len(f.buf) - 8

\* C12: after dm_write_header(f, file_version, tree) on an empty stream the
\* first 4 bytes hold the version (4 when file_version is 4, otherwise 3),
\* the size field at offset 4 holds end_offset - start_offset + 4, the
\* endianness flag is 1, the last 8 bytes are zero, the root group lies
\* between start_offset and end_offset, and the position is the end of the
\* stream.
C12_WriteHeaderLayout ==
    (func = "header" /\ pc = "written" /\ wret.err = "" /\ wret.start = 0) =>
        /\ UBE(SubSeq(f.buf, 1, 4)) = (IF tid = 4 THEN 4 ELSE 3)
        /\ UBE(SubSeq(f.buf, 5, 4 + WrittenW))
               = WrittenEnd - WrittenStart + 4
        /\ UBE(SubSeq(f.buf, 5 + WrittenW, 8 + WrittenW)) = 1
        /\ SubSeq(f.buf, WrittenStart + 1, WrittenEnd) = WrittenRoot
        /\ SubSeq(f.buf, WrittenEnd + 1, Len(f.buf))
               = <<0, 0, 0, 0, 0, 0, 0, 0>>
        /\ f.pos = Len(f.buf)

\* a version 4 header with a nested dict was written on an empty stream
C12_Witness ==
    /\ func = "header" /\ pc = "written" /\ wret.err = "" /\ wret.start = 0
    /\ tid = 4 /\ data = HeaderTrees[4]
    /\ Len(f.buf) > 24

----------------------------------------------------------------------------
(* version and size_type after a header call *)

\* the root group as a process that made no header call writes it
ImportRoot == dm_write_tag_root(Ctx([buf |-> <<>>, pos |-> 0], 3, "L"), data)

\* C13: the version and the size width a dm_write_header or dm_read_header
\* call selects do not persist after the call (version and size_type are what
\* they were before it), and a later dm_write_tag_root on another stream
\* writes the bytes it would have written without the header call.
C13_VersionScoped ==
    func = "header" =>
        /\ version = 3 /\ size_type = "L"
        /\ pc = "later" => f.buf = ImportRoot.buf

----------------------------------------------------------------------------
(* Groups with entries that are not written *)

\* keys and values as in test_metadata_difficult_types_write_read_round_trip:
\* None and "" among the keys; None, empty groups, and groups that hold
\* entries of their own that are not written among the values
CountKeys == << PyNone, PyStr(<<>>), TreeKeys[1], TreeKeys[2] >>

CountValues ==
    << PyNone,
       PyInt(45),
       PyList(<<>>),
       PyDict(<<>>),
       PyList(<<PyInt(1), PyNone, PyInt(2)>>),
       PyDict(<< <<TreeKeys[1], PyNone>>, <<PyStr(<<>>), PyInt(45)>>,
                 <<KeyHi, PyBool(TRUE)>> >>) >>

InitGroup ==
    /\ InitCaller("group")
    /\ tid = 0
    /\ \/ data = PyDict(<<>>)
       \/ data = PyList(<<>>)
       \/ \E v1 \in 1..Len(CountValues) : data = PyList(<<CountValues[v1]>>)
       \/ \E v1, v2 \in 1..Len(CountValues) :
             data = PyList(<<CountValues[v1], CountValues[v2]>>)
       \/ \E k1 \in 1..Len(CountKeys), v1 \in 1..Len(CountValues) :
             data = PyDict(<< <<CountKeys[k1], CountValues[v1]>> >>)
       \/ \E k1, k2 \in 1..Len(CountKeys), v1, v2 \in 1..Len(CountValues) :
             /\ k1 # k2
             /\ data = PyDict(<< <<CountKeys[k1], CountValues[v1]>>,
                                 <<CountKeys[k2], CountValues[v2]>> >>)

WriteGroup ==
    /\ pc = "start" /\ func = "group"
    /\ Written([hdr |-> 0,
                s |-> dm_write_tag_root(Ctx(f, version, size_type), data)])

\* the entries that lie between the group header and the end of what was
\* written: r holds those taken so far, each as <<name, value>>
ScanStep(r, e) == [items |-> Append(r.items, <<e.name, e.val>>), s |-> e.s]

RECURSIVE ScanEntries(_, _)
ScanEntries(r, end) ==
    IF r.s.err # "" \/ r.s.pos >= end THEN r
    ELSE ScanEntries(ScanStep(r, dm_read_tag_entry(r.s)), end)

ScanGroupResult(r) ==
    WasRead([val |-> PyDict(r.items), hdr |-> Len(r.items), s |-> r.s])

\* a walk over the written group, entry by entry, that does not look at the
\* entry count
ScanGroup ==
    /\ pc = "written" /\ func = "group" /\ wret.err = ""
    /\ ScanGroupResult(
           ScanEntries([items |-> <<>>,
                        s |-> f_seek(Ctx(f, version, size_type),
                                     wret.start + 2 + SizeW(size_type))],
                       wret.end))

NextGroup == WriteGroup \/ ScanGroup

SpecGroup == InitGroup /\ [][NextGroup]_vars

\* the entry-count field of the group that was written
CountField ==
    UBE(SubSeq(f.buf, wret.start + 3, wret.start + 2 + SizeW(size_type)))

\* the entries the claim says are written: of a list those whose value is not
\* None, of a dict those whose key is neither None nor empty and whose value
\* is not None
KeptOfList(x) == SelectSeq(x.v, LAMBDA e : e.t # "none")
KeptOfDict(x) ==
    SelectSeq(x.v, LAMBDA p : p[1].t # "none" /\ p[1].v # <<>> /\ p[2].t # "none")
KeptEntries(x) ==
    IF x.t = "list"
    THEN [i \in 1..Len(KeptOfList(x)) |-> <<PyNone, WithoutNone(KeptOfList(x)[i])>>]
    ELSE [i \in 1..Len(KeptOfDict(x)) |->
             <<KeptOfDict(x)[i][1], WithoutNone(KeptOfDict(x)[i][2])>>]

\* C14: the entry-count field of a group written by dm_write_tag_root equals
\* the number of entries written after it; entries whose value is None, and
\* dict entries whose key is None or empty, are neither written nor counted,
\* and every other entry is written and counted.
C14_EntryCount ==
    func = "group" =>
        /\ pc \in {"written", "done"} =>
              /\ wret.err = ""
              /\ CountField = Len(KeptEntries(data))
        /\ pc = "done" =>
              /\ rret.err = "" /\ rret.pos = wret.end
              /\ rret.hdr = CountField
              /\ rret.val.v = KeptEntries(data)

\* {None: 45, "Nope": [1, None, 2]} was written under version 4 as a group of
\* one entry
C14_Witness ==
    /\ func = "group" /\ pc = "done" /\ version = 4
    /\ data = PyDict(<< <<CountKeys[1], CountValues[2]>>,
                        <<CountKeys[4], CountValues[5]>> >>)
    /\ rret.hdr = 1 /\ CountField = 1

----------------------------------------------------------------------------
(* The header length of a leaf *)

\* the header-length field of the leaf in the output
OutputHeaderLen == UBE(SubSeq(Output, 5, 4 + SizeW(size_type)))

ScalarLeaf(x) == x.t \in {"int", "float", "bool"}
ArrayLeaf(x) == x.t \in {"str", "dcw"}
StructArrayLeaf(x) == x.t = "structarray"

\* the payload header size as the claim has it
ClaimedHeaderSize(x) ==
    CASE ScalarLeaf(x) -> 0
      [] ArrayLeaf(x) -> 2
      [] StructArrayLeaf(x) -> 2 + 2 * Len(x.v.typecodes)

\* the payload header size of a struct array counts the array's own type and
\* length besides the struct's
PayloadHeaderSize(x) ==
    CASE ScalarLeaf(x) -> 0
      [] ArrayLeaf(x) -> 2
      [] StructArrayLeaf(x) -> 4 + 2 * Len(x.v.typecodes)

LeafWritten(x) ==
    /\ func = "tag_data" /\ pc \in {"written", "done"} /\ wret.err = ""
    /\ data = x
    /\ ScalarLeaf(x) \/ ArrayLeaf(x) \/ StructArrayLeaf(x)

----------------------------------------------------------------------------
(* Structs with a struct among their fields *)

\* tuples as fields of a tuple
InnerTuples ==
    << PyTuple(<<>>), PyTuple(<<PyInt(3)>>),
       PyTuple(<<PyInt(3), StructScalars[3]>>) >>

\* the fields of the tuples: the scalars, then the tuples
NestedFields == StructScalars \o InnerTuples

HasTuple(items) == \E i \in 1..Len(items) : items[i].t = "tuple"
HasScalar(items) == \E i \in 1..Len(items) : items[i].t # "tuple"

\* a tuple of two or three fields that mixes scalars with tuples
InitNestedWrite ==
    /\ InitCaller("nested")
    /\ tid = get_dmtype_for_name("struct")
    /\ \E n \in 2..3 : \E ix \in [1..n -> 1..Len(NestedFields)] :
          /\ data = PyTuple([i \in 1..n |-> NestedFields[ix[i]]])
          /\ HasTuple(data.v) /\ HasScalar(data.v)

\* the field type ids of the struct in a file: short, long, struct
FileFieldTypes == {2, 3, 15}

\* a struct in a file: length 0, the number of fields, a pair of length 0 and
\* type id for each field, and bytes for the fields
StructFile(types, W) ==
    BE(0, W) \o BE(Len(types), W)
    \o Concat([i \in 1..Len(types) |-> BE(0, W) \o BE(types[i], W)])
    \o [i \in 1..12 |-> 0]

InitNestedRead ==
    /\ \E g \in Globals : version = g.version /\ size_type = g.size_type
    /\ pc = "start" /\ func = "nested_file"
    /\ wret = NoWret /\ rret = NoRret
    /\ tid = get_dmtype_for_name("struct")
    /\ \E n \in 1..3 : \E types \in [1..n -> FileFieldTypes] :
          /\ data = PyList([i \in 1..n |-> PyInt(types[i])])
          /\ f = [buf |-> StructFile(types, SizeW(size_type)), pos |-> 0]

InitNested == InitNestedWrite \/ InitNestedRead

WriteNested ==
    /\ pc = "start" /\ func = "nested"
    /\ Written(dm_write_types(tid, Ctx(f, version, size_type), data))

ReadNested ==
    /\ pc = "written" /\ func = "nested" /\ wret.err = ""
    /\ WasRead(dm_read_types(tid, Rewound))

ReadNestedFile ==
    /\ pc = "start" /\ func = "nested_file"
    /\ WasRead(dm_read_types(tid, Ctx(f, version, size_type)))

NextNested == WriteNested \/ ReadNested \/ ReadNestedFile

SpecNested == InitNested /\ [][NextNested]_vars

\* C16: a struct with a field of type struct (type id 15) is rejected with an
\* error when it is read, and a tuple that mixes scalars with a nested tuple
\* is rejected with an error when it is written.
C16_NestedStructRejected ==
    /\ (func = "nested_file" /\ pc = "done"
           /\ \E i \in 1..Len(data.v) : data.v[i] = PyInt(15))
          => rret.err # ""
    /\ (func = "nested" /\ pc = "written") => wret.err # ""

----------------------------------------------------------------------------
(* Values dm_write_tag_data has no type for *)

\* the values of no entry of the type registry
Unmapped(x) == x.t \in {"none", "bytes", "list", "dict"}

\* C17: every value passed to dm_write_tag_data is written as a complete leaf
\* (one dm_read_tag_data reads to its end without error) or an error is
\* raised; for a value of no registry type the error is the exception
\* "Unsupported type".
C17_LeafOrError ==
    func = "tag_data" =>
        /\ (pc = "written" /\ Unmapped(data)) => wret.err = "Exception"
        /\ pc = "done" => rret.err = "" /\ rret.pos = wret.end

----------------------------------------------------------------------------
(* imagedatadict_to_ndarray on the ImageData of a file *)

\* n elements
DataItems(n) == [k \in 1..n |-> PyInt(k)]

\* the Data of an ImageData: int16 and int32 arrays, complex64 struct arrays
\* (one of them with a byte count that is no multiple of 8), and a value that
\* is no array
ImageDataBuffers ==
    {PyArray("h", DataItems(n)) : n \in {0, 1, 2, 4}}
    \cup {PyArray("i", DataItems(n)) : n \in {0, 1, 2}}
    \cup {PyStructArray(<<"f", "f">>, PyBytes(RawBytes(n))) : n \in {8, 12, 16}}
    \cup {PyInt(5)}

\* DataType codes: int16, Complex64, int32, RGB, and one of no entry
ImageDataTypes == {1, 3, 7, 23, 99}

ImagePixelDepths == {2, 4, 8}

\* the lengths in Dimensions
ImageLengths == {0 - 1, 0, 1, 2, 4}

ImageDimensions ==
    {<<>>} \cup {<<a>> : a \in ImageLengths}
    \cup {<<a, b>> : a \in ImageLengths, b \in ImageLengths}

InitImageData ==
    /\ ImportGlobals
    /\ f = [buf |-> <<>>, pos |-> 0]
    /\ pc = "start" /\ func = "imagedata"
    /\ wret = NoWret /\ rret = NoRret
    /\ tid = 0
    /\ \E d \in ImageDataBuffers, t \in ImageDataTypes, p \in ImagePixelDepths,
          dims \in ImageDimensions :
          data = imagedatadict(PyInt(t), p,
                               PyList([k \in 1..Len(dims) |-> PyInt(dims[k])]),
                               Ok(d)).val

ToNdArrayResult(r) ==
    /\ rret' = [err |-> r.err, val |-> r.val, hdr |-> 0, pos |-> 0]
    /\ pc' = "done"
    /\ UNCHANGED <<f, version, size_type, func, tid, data, wret>>

\* im = imagedatadict_to_ndarray(imdict)
ToNdArray ==
    /\ pc = "start" /\ func = "imagedata"
    /\ ToNdArrayResult(imagedatadict_to_ndarray(data))

NextImageData == ToNdArray

SpecImageData == InitImageData /\ [][NextImageData]_vars

\* the fields of the ImageData, and its Data as decoded
GivenDataType == IntValue(DictGet(data, S("DataType"), PyNone))
GivenPixelDepth == IntValue(DictGet(data, S("PixelDepth"), PyNone))
GivenDimensions ==
    [k \in 1..Len(DictGet(data, S("Dimensions"), PyNone).v) |->
        IntValue(DictGet(data, S("Dimensions"), PyNone).v[k])]
DecodedData == imagedatadict_array(DictGet(data, S("Data"), PyNone))

DataTypeMaps ==
    /\ DecodedData.err = ""
    /\ \E i \in 1..Len(dm_image_dtypes) :
          /\ dm_image_dtypes[i].key = GivenDataType
          /\ dm_image_dtypes[i].np = dtype_type(DecodedData.val)

UnknownLengths(dims) == {k \in 1..Len(dims) : dims[k] = 0 - 1}
KnownProduct(dims) ==
    Prod([k \in 1..Len(dims) |-> IF dims[k] = 0 - 1 THEN 1 ELSE dims[k]])
FilledDimensions(dims, n) ==
    IF UnknownLengths(dims) = {} THEN dims
    ELSE IF \/ Cardinality(UnknownLengths(dims)) > 1
            \/ KnownProduct(dims) = 0
            \/ n % KnownProduct(dims) # 0
    THEN <<0 - 1>>
    ELSE [k \in 1..Len(dims) |->
             IF dims[k] = 0 - 1 THEN n \div KnownProduct(dims) ELSE dims[k]]

GivenFilled == FilledDimensions(GivenDimensions, Len(DecodedData.val.items))

----------------------------------------------------------------------------
(* load_image on files that save_image did not write *)

\* the Data of a file's image by its DataType code, n elements: int16 (1),
\* Complex64 (3), RGB (23)
FileDataTypes == {1, 3, 23}

FileData(t, n) ==
    CASE t = 1 -> MakeArray([char |-> "h", itemsize |-> 2], <<n>>)
      [] t = 3 -> PyStructArray(<<"f", "f">>, PyBytes(RawBytes(8 * n)))
      [] t = 23 -> MakeArray([char |-> "i", itemsize |-> 4], <<n>>)

FilePixelDepth(t) == CASE t = 1 -> 2 [] t = 3 -> 8 [] t = 23 -> 4

\* Dimensions of rank 0 to 5; two of rank 3, the data's middle axis being of
\* length 1 under the first and of length 2 under the second
FileDimensions ==
    << <<>>, <<2>>, <<2, 1>>, <<2, 1, 1>>, <<1, 2, 1>>, <<1, 1, 1, 2>>,
       <<1, 1, 1, 1, 2>> >>

\* Meta Data: nothing, or a Format, or IsSequence, or both
FileFormats == << PyNone, S("Spectrum"), S("Spectrum image"), S("abc") >>
FileSequences == << PyNone, PyBool(TRUE), PyBool(FALSE) >>

FileMetaData(format, is_sequence) ==
    PyDict((IF format = PyNone THEN <<>> ELSE << <<S("Format"), format>> >>)
           \o (IF is_sequence = PyNone THEN <<>>
               ELSE << <<S("IsSequence"), is_sequence>> >>))

\* Calibrations with k entries under Dimension, the first without fields and
\* the others with Units
FileCalibrations(k) ==
    PyDict(<< <<S("Dimension"),
                PyList([i \in 1..k |->
                           IF i = 1 THEN PyDict(<<>>)
                           ELSE PyDict(<< <<S("Units"), S("nm")>> >>)])>> >>)

\* the ImageData: calibrated = 0 for no Calibrations, 1 for Calibrations with
\* no Dimension entries, 2 for one entry fewer than there are Dimensions, 3 for
\* as many, 4 for one more
FileCalibrationCount(calibrated, rank) ==
    CASE calibrated = 1 -> 0
      [] calibrated = 2 -> IF rank = 0 THEN 0 ELSE rank - 1
      [] calibrated = 3 -> rank
      [] calibrated = 4 -> rank + 1

FileImageData(t, dims, calibrated) ==
    PyDict(<< <<S("DataType"), PyInt(t)>>,
              <<S("PixelDepth"), PyInt(FilePixelDepth(t))>>,
              <<S("Dimensions"), PyList([k \in 1..Len(dims) |-> PyInt(dims[k])])>>,
              <<S("Data"), FileData(t, Prod(dims))>> >>
           \o (IF calibrated = 0 THEN <<>>
               ELSE << <<S("Calibrations"),
                         FileCalibrations(
                             FileCalibrationCount(calibrated, Len(dims)))>> >>))

\* the tag tree of the file; tagged says whether the image has ImageTags
FileTree(image_data, tagged, meta_data) ==
    PyDict(<< <<S("ImageList"),
                PyList(<< PyDict(
                    << <<S("ImageData"), image_data>> >>
                    \o (IF tagged
                        THEN << <<S("ImageTags"),
                                  PyDict(<< <<S("Meta Data"), meta_data>> >>)>> >>
                        ELSE <<>>)) >>)>> >>)

FileBytes(tree, file_version) ==
    dm_write_header(Ctx([buf |-> <<>>, pos |-> 0], 3, "L"), file_version, tree)

InitImageFileState(tree, s) ==
    /\ version = s.version /\ size_type = s.size_type
    /\ f = [buf |-> s.buf, pos |-> 0]
    /\ s.err = ""
    /\ pc = "start" /\ func = "image_file"
    /\ wret = NoWret /\ rret = NoRret
    /\ data = tree

\* images with ImageTags
InitImageFileTagged ==
    \E file_version \in {3, 4}, t \in FileDataTypes,
       d \in 1..Len(FileDimensions), calibrated \in 0..4,
       fm \in 1..Len(FileFormats), sq \in 1..Len(FileSequences) :
       /\ tid = file_version
       /\ \E tree \in {FileTree(FileImageData(t, FileDimensions[d], calibrated),
                                TRUE,
                                FileMetaData(FileFormats[fm], FileSequences[sq]))} :
             InitImageFileState(tree, FileBytes(tree, file_version))

\* images without
InitImageFileBare ==
    \E file_version \in {3, 4}, t \in FileDataTypes,
       d \in 1..Len(FileDimensions), calibrated \in 0..4 :
       /\ tid = file_version
       /\ \E tree \in {FileTree(FileImageData(t, FileDimensions[d], calibrated),
                                FALSE, PyNone)} :
             InitImageFileState(tree, FileBytes(tree, file_version))

InitImageFile == InitImageFileTagged \/ InitImageFileBare

\* load_image(s)
LoadImageFile ==
    /\ pc = "start" /\ func = "image_file"
    /\ LoadImageResult(load_image(Ctx(f, version, size_type)))

NextImageFile == LoadImageFile

SpecImageFile == InitImageFile /\ [][NextImageFile]_vars

\* the rank of the data returned, not counting the channel axis of RGB data
ReturnedRank ==
    IF dtype_type(rret.val.data) = "uint8"
    THEN Len(rret.val.data.shape) - 1
    ELSE Len(rret.val.data.shape)

ImageFileLoaded == func = "image_file" /\ pc = "done" /\ rret.err = ""

\* C19: every record load_image returns satisfies (1 if is_sequence else 0) +
\* collection_dimension_count + datum_dimension_count = rank of the data
\* returned (not counting the channel axis of RGB data), for every rank and
\* every combination of Format and IsSequence in the file.
C19_DescriptorRank ==
    ImageFileLoaded =>
        expected_dimension_count(rret.val.data_descriptor) = ReturnedRank

\* a spectrum image of rank 3 with IsSequence set was loaded as a sequence
C19_Witness ==
    /\ ImageFileLoaded
    /\ rret.val.data_descriptor = DataDescriptor(TRUE, 1, 1)
    /\ Len(rret.val.data.shape) = 3

\* the image of the file and its ImageData
FileImage == data.v[1][2].v[1]
GivenImageData == DictGet(FileImage, S("ImageData"), PyNone)

\* an array as dm_read_array returns it
AsRead(x) ==
    IF x.t = "dcw" THEN PyArray(DCW_typecode(x.v), x.v.items) ELSE x

\* the ImageData is one imagedatadict_to_ndarray takes
ImageDataReadable ==
    imagedatadict_to_ndarray(
        imagedatadict(DictGet(GivenImageData, S("DataType"), PyNone),
                      IntValue(DictGet(GivenImageData, S("PixelDepth"), PyNone)),
                      DictGet(GivenImageData, S("Dimensions"), PyNone),
                      Ok(AsRead(DictGet(GivenImageData, S("Data"), PyNone)))).val
    ).err = ""

\* the number of entries under Calibrations/Dimension in the file
GivenCalibrations ==
    Len(DictGet(DictGet(GivenImageData, S("Calibrations"), FileCalibrations(0)),
                S("Dimension"), PyNone).v)

\* C20: for every readable ImageData, one without Calibrations or with fewer
\* Dimension entries than the data has axes included, load_image returns
\* exactly one dimensional calibration per axis of the data, a missing one
\* being the default calibration (offset 0, scale 1, no units).
C20_CalibrationPerAxis ==
    (func = "image_file" /\ pc = "done" /\ ImageDataReadable) =>
        /\ rret.err = ""
        /\ Len(rret.val.dimensional_calibrations) = ReturnedRank
        /\ \A i \in 1..Len(rret.val.dimensional_calibrations) :
              i > GivenCalibrations
                  => rret.val.dimensional_calibrations[i] = Calibration(F0, F1, S(""))

----------------------------------------------------------------------------
(* Entries: dm_write_tag_entry and dm_read_tag_entry *)

\* the names of the entries: None, "d", "Name", "aNames", "a\nName"
EntryNames ==
    << PyNone, PyStr(<<100>>), PyStr(<<78, 97, 109, 101>>),
       PyStr(<<97, 78, 97, 109, 101, 115>>),
       PyStr(<<97, 10, 78, 97, 109, 101>>) >>

\* the leaves of the entries: 45, True, "Hi", a uint16 array, an int16 array
\* of a negative number, a float64 array, an empty int16 array, and the
\* structs (3, 4), (56.7, 3) and (3, 56.7)
EntryLeaves ==
    << PyInt(45),
       PyBool(TRUE),
       PyStr(<<72, 105>>),
       MakeArray([char |-> "H", itemsize |-> 2], <<2>>),
       PyDCW("h", 2, <<1>>, <<PyInt(0 - 1)>>),
       MakeArray(ElemTypes[3], <<2>>),
       MakeArray(ElemTypes[1], <<0>>),
       PyTuple(<<PyInt(3), PyInt(4)>>),
       PyTuple(<<PyFloat(<<64, 76, 89, 153, 153, 153, 153, 154>>), PyInt(3)>>),
       PyTuple(<<PyInt(3), PyFloat(<<64, 76, 89, 153, 153, 153, 153, 154>>)>>) >>

\* the groups of the entries: {}, [45, [True]] and {"d": {"Name": "Hi"}, "e": []}
EntryGroups ==
    << PyDict(<<>>),
       PyList(<<PyInt(45), PyList(<<PyBool(TRUE)>>)>>),
       PyDict(<< <<PyStr(<<100>>),
                   PyDict(<< <<PyStr(<<78, 97, 109, 101>>), PyStr(<<72, 105>>)>> >>)>>,
                 <<KeyE, PyList(<<>>)>> >>) >>

\* data holds the arguments of the call: (outdata, outname)
InitEntry ==
    /\ InitCaller("tag_entry")
    /\ tid = 0
    /\ \E k \in 1..Len(EntryNames) :
          \/ \E l \in 1..Len(EntryLeaves) :
                data = PyTuple(<<EntryLeaves[l], EntryNames[k]>>)
          \/ \E g \in 1..Len(EntryGroups) :
                data = PyTuple(<<EntryGroups[g], EntryNames[k]>>)

\* dm_write_tag_entry returns nothing
WriteEntry ==
    /\ pc = "start" /\ func = "tag_entry"
    /\ Written([hdr |-> 0,
                s |-> dm_write_tag_entry(Ctx(f, version, size_type),
                                         data.v[1], data.v[2])])

\* name, data = dm_read_tag_entry(f)
ReadEntryResult(r) ==
    WasRead([val |-> PyTuple(<<r.name, r.val>>), hdr |-> 0, s |-> r.s])

ReadEntry ==
    /\ pc = "written" /\ func = "tag_entry" /\ wret.err = ""
    /\ ReadEntryResult(dm_read_tag_entry(Rewound))

NextEntry == WriteEntry \/ ReadEntry

SpecEntry == InitEntry /\ [][NextEntry]_vars

\* the entry written is a leaf
EntryIsLeaf == func = "tag_entry" /\ ~(data.v[1].t \in {"dict", "list"})

\* the stream at the entry's payload, after its kind, name and dm4 size
EntryPayload ==
    dm_read_tag_entry_body(
        dm_read_tag_entry_head(Rewound))

\* the payload of the entry as dm_read_tag_data decodes it
EntryDecoded == dm_read_tag_data(EntryPayload).val

\* the name ends with "Name"
EndsWithName(name) ==
    /\ name.t = "str" /\ Len(name.v) >= 4
    /\ SubSeq(name.v, Len(name.v) - 3, Len(name.v)) = <<78, 97, 109, 101>>

\* a non-empty array of integer elements, taken as character codes
CharacterArray(x) ==
    x.t = "array" /\ x.v.items # <<>> /\ ~IsFloatChar(x.v.typecode)

\* the items of an array or a struct as code points
CodePoints(x) == [i \in 1..Len(IterItems(x)) |-> MagNat(AsInt(IterItems(x)[i]).v.mag)]

\* C21 as claimed: on read, a leaf is coerced from an array of character
\* codes to a text string exactly when its entry name ends with "Name" and
\* its decoded payload is a non-empty character-valued array; every other
\* leaf is returned uncoerced.
C21_NameCoercion_Claimed ==
    (EntryIsLeaf /\ pc = "done") =>
        /\ rret.err = ""
        /\ rret.val.v[2] =
              IF EndsWithName(data.v[2]) /\ CharacterArray(EntryDecoded)
              THEN PyStr(CodePoints(EntryDecoded))
              ELSE EntryDecoded

\* the name matches ".*Name" and the decoded payload is a non-empty array or
\* struct whose first element is an integer
NameCoerced(name, x) ==
    /\ name.t = "str" /\ MatchesName(name.v)
    /\ x.t \in {"array", "tuple"} /\ IterItems(x) # <<>>
    /\ IsInstanceInt(IterItems(x)[1])

\* every element is an integer that is a code point
AllCodePoints(x) == \A i \in 1..Len(IterItems(x)) : ~ChrFails(IterItems(x)[i])

\* C21, amended: on read, a leaf is coerced to a text string exactly when its
\* entry name matches the pattern .*Name (it holds "Name" with no line break
\* before it) and its decoded payload is a non-empty array or struct whose
\* first element is an integer; the read then fails when an element is no
\* code point. Every other leaf is returned uncoerced.
C21_NameCoercion ==
    (EntryIsLeaf /\ pc = "done") =>
        IF NameCoerced(data.v[2], EntryDecoded)
        THEN /\ rret.err = "" <=> AllCodePoints(EntryDecoded)
             /\ rret.err = "" => rret.val.v[2] = PyStr(CodePoints(EntryDecoded))
        ELSE rret.err = "" /\ rret.val.v[2] = EntryDecoded

\* the struct (3, 4) under the name "aNames" came back as a string of two
\* characters
C21_Witness ==
    /\ EntryIsLeaf /\ pc = "done"
    /\ data = PyTuple(<<EntryLeaves[8], EntryNames[4]>>)
    /\ rret.err = "" /\ rret.val.v[2] = PyStr(<<3, 4>>)

----------------------------------------------------------------------------
(* Strings: a text leaf written by dm_write_tag_entry, read back by
   dm_read_tag_entry and fix_strings *)

\* the texts: "", "Hi", "é€", U+1F600, "A" after U+FEFF, "A" after U+FFFE
StringTexts ==
    << PyStr(<<>>), PyStr(<<72, 105>>), PyStr(<<233, 8364>>), PyStr(<<128512>>),
       PyStr(<<65279, 65>>), PyStr(<<65534, 65>>) >>

\* the names: None, "d", "Name", "é"
StringNames ==
    << PyNone, PyStr(<<100>>), PyStr(<<78, 97, 109, 101>>), PyStr(<<233>>) >>

\* data holds the arguments of the call: (outdata, outname)
InitString ==
    /\ InitCaller("string")
    /\ tid = get_dmtype_for_name("ushort")
    /\ \E k \in 1..Len(StringNames) : \E l \in 1..Len(StringTexts) :
          data = PyTuple(<<StringTexts[l], StringNames[k]>>)

WriteString ==
    /\ pc = "start" /\ func = "string"
    /\ Written([hdr |-> 0,
                s |-> dm_write_tag_entry(Ctx(f, version, size_type),
                                         data.v[1], data.v[2])])

\* fix_strings of what dm_read_tag_entry returned
ReadStringFixed(r, x) ==
    IF r.s.err # "" THEN WasRead([val |-> PyNone, hdr |-> 0, s |-> r.s])
    ELSE IF x.err # ""
    THEN WasRead([val |-> PyNone, hdr |-> 0, s |-> Raise(r.s, x.err)])
    ELSE WasRead([val |-> x.val, hdr |-> 0, s |-> r.s])

ReadStringResult(r) ==
    ReadStringFixed(r, IF r.s.err # "" THEN Ok(PyNone) ELSE fix_strings(r.val))

ReadString ==
    /\ pc = "written" /\ func = "string" /\ wret.err = ""
    /\ ReadStringResult(dm_read_tag_entry(Rewound))

NextString == WriteString \/ ReadString

SpecString == InitString /\ [][NextString]_vars

\* C22: for every text s and every entry name k, writing s as a leaf under k
\* (an array of UTF-16LE code units, element type id 4) and reading it back
\* with fix_strings yields exactly s.
C22_StringRoundTrip ==
    func = "string" =>
        /\ pc \in {"written", "done"} => wret.err = ""
        /\ pc = "done" => (rret.err = "" /\ rret.val = data.v[1])

----------------------------------------------------------------------------
(* The size of the writes of DataChunkWriter.write *)

\* the leading dimensions the loop of writes iterates over
DCW_lead(d) ==
    SubSeq(d.shape, 1,
           Len(d.shape) - DCW_chunk(d.shape, Len(d.shape), 0, 1).index_count)

\* the number of bytes of each f.write(data[index].tobytes()), in order
DCW_write_sizes(d) ==
    [i \in 1..Len(ndindex(DCW_lead(d))) |->
        Len(tobytes(DCW_typecode(d), DCW_block(d, ndindex(DCW_lead(d))[i])))]

\* C23: DataChunkWriter.write never passes more than 64 MiB of data (here
\* ChunkLimit bytes) to a single stream write, for every array shape and
\* every element size. A write of one element, at most 16 bytes in numpy and
\* far below 64 MiB, is within the limit whatever ChunkLimit stands for.
C23_ChunkBytes ==
    (func = "array" /\ data.t = "dcw" /\ RegistryArray(data.v)
        /\ pc \in {"written", "done"}) =>
        \A i \in 1..Len(DCW_write_sizes(data.v)) :
            \/ DCW_write_sizes(data.v)[i] <= ChunkLimit
            \/ DCW_write_sizes(data.v)[i] = data.v.itemsize

----------------------------------------------------------------------------
(* dm_write_header: the file size it records *)

\* the value of the size field at offset 4 of the written file
WrittenFileSize == UBE(SubSeq(f.buf, 5, 4 + WrittenW))

\* C24: the file-size field written by dm_write_header equals the total size
\* of the written file minus 16, for format version 3 and for format
\* version 4.
C24_FileSizeField ==
    (func = "header" /\ pc = "written" /\ wret.err = "" /\ wret.start = 0) =>
        WrittenFileSize = Len(f.buf) - 16

----------------------------------------------------------------------------
(* dm_write_tag_entry: the dm4 byte-length field *)

\* kind, name and body of the entry written
EntryKind ==
    IF data.v[1].t \in {"dict", "list"} THEN TAG_TYPE_ARRAY ELSE TAG_TYPE_DATA

EntryNameBytes == IF Truthy(data.v[2]) THEN data.v[2].v ELSE <<>>

\* the body as its own writer leaves it on an empty stream
EntryBody ==
    IF data.v[1].t \in {"dict", "list"}
    THEN dm_write_tag_root(Ctx([buf |-> <<>>, pos |-> 0], version, size_type),
                           data.v[1]).buf
    ELSE dm_write_tag_data(Ctx([buf |-> <<>>, pos |-> 0], version, size_type),
                           data.v[1]).buf

\* the entries of a stream, walked without use of their byte-length fields:
\* the field of each of the n entries from s on, and of every entry nested
\* in them, holds the number of bytes from its end to the end of the entry
RECURSIVE EntryFieldsOk(_, _)
\* the stream after the body of an entry of the given kind
EntryBodyEnd(kind, s) ==
    IF kind = TAG_TYPE_ARRAY THEN dm_read_tag_root(s).s ELSE dm_read_tag_data(s).s

EntryNestedOk(kind, g) ==
    kind = TAG_TYPE_ARRAY => EntryFieldsOk(g.s, g.vals[3])

EntryFieldsOk_at(n, kind, field, e) ==
    /\ e.err = ""
    /\ field.n = e.pos - field.s.pos
    /\ EntryNestedOk(kind, dm_read_tag_root_head(field.s))
    /\ EntryFieldsOk(e, n - 1)

EntryFieldsOk_sized(n, kind, field) ==
    EntryFieldsOk_at(n, kind, field, EntryBodyEnd(kind, field.s))

EntryFieldsOk(s, n) ==
    \/ n = 0
    \/ EntryFieldsOk_sized(
          n, SByte(dm_read_tag_entry_head(s).vals[1]),
          get_size(dm_read_tag_entry_named(dm_read_tag_entry_head(s)).s))

\* C25: in format version 4, when dm_write_tag_entry completes, the entry's
\* byte-length field holds the number of bytes of the entry body that follow
\* it (the leaf data, or the nested group with all its nested entries), the
\* same holds of every entry nested inside it, so that an enclosing entry is
\* backpatched after the entries nested inside it are written, and the
\* stream position is back at the end of the stream; in format version 3 no
\* such field is written.
C25_EntryLength ==
    (func = "tag_entry" /\ pc = "written" /\ wret.err = "") =>
        /\ Output = <<EntryKind>> \o BE(Len(EntryNameBytes), 2) \o EntryNameBytes
                    \o (IF version = 4 THEN BE(Len(EntryBody), 8) ELSE <<>>)
                    \o EntryBody
        /\ version = 4 => EntryFieldsOk(Rewound, 1)
        /\ f.pos = Len(f.buf)

\* a dm4 entry "d" holding the group {"d": {"Name": "Hi"}, "e": []} was
\* written after earlier output
C25_Witness ==
    /\ func = "tag_entry" /\ pc = "written" /\ wret.err = ""
    /\ version = 4 /\ wret.start = 3
    /\ data = PyTuple(<<EntryGroups[3], EntryNames[2]>>)
    /\ UBE(SubSeq(Output, 5, 12)) = Len(EntryBody)
    /\ Len(EntryBody) > 40

----------------------------------------------------------------------------
(* Files that differ in their size fields only *)

\* the offsets of the byte-length fields of the n entries from s on and of
\* the entries nested in them (dm4)
RECURSIVE EntryFieldOffsets(_, _)
EntryNestedOffsets(kind, g) ==
    IF kind = TAG_TYPE_ARRAY THEN EntryFieldOffsets(g.s, g.vals[3]) ELSE <<>>

EntryFieldOffsets_sized(n, kind, field) ==
    <<field.s.pos - 8>>
    \o EntryNestedOffsets(kind, dm_read_tag_root_head(field.s))
    \o EntryFieldOffsets(EntryBodyEnd(kind, field.s), n - 1)

EntryFieldOffsets(s, n) ==
    IF n = 0 THEN <<>>
    ELSE EntryFieldOffsets_sized(
            n, SByte(dm_read_tag_entry_head(s).vals[1]),
            get_size(dm_read_tag_entry_named(dm_read_tag_entry_head(s)).s))

\* the file dm_write_header writes for the tree
WrittenFile(ver, tree) ==
    dm_write_header(Ctx([buf |-> <<>>, pos |-> 0], 3, "L"), ver, tree).buf

\* the offsets of the entries' byte-length fields in that file
FileEntryOffsets(ver, buf) ==
    IF ver # 4 THEN <<>>
    ELSE EntryFieldOffsets(
            dm_read_tag_root_head(
                Ctx([buf |-> buf, pos |-> 16], 4, "Q")).s,
            dm_read_tag_root_head(
                Ctx([buf |-> buf, pos |-> 16], 4, "Q")).vals[3])

\* the fields a file is changed in: none, the file size, the entries' byte
\* lengths, or all of them
FieldChoices == <<"none", "size", "entries", "both">>

\* the bytes put into the fields
FieldFills == <<0, 1, 255>>

\* buf with every byte of the fields at the offsets replaced by fill
Overwritten(buf, offsets, w, fill) ==
    [i \in 1..Len(buf) |->
        IF \E k \in 1..Len(offsets) : i > offsets[k] /\ i <= offsets[k] + w
        THEN fill ELSE buf[i]]

FieldsFile_in(ver, buf, which, fill) ==
    Overwritten(
        Overwritten(buf, IF which \in {"size", "both"} THEN <<4>> ELSE <<>>,
                    IF ver = 4 THEN 8 ELSE 4, fill),
        IF which \in {"entries", "both"} THEN FileEntryOffsets(ver, buf)
        ELSE <<>>,
        8, fill)

FieldsFile(ver, tree, which, fill) ==
    FieldsFile_in(ver, WrittenFile(ver, tree), which, fill)

\* tid is the version of the file, data the tree it was written from
InitFields ==
    /\ \E g \in Globals : version = g.version /\ size_type = g.size_type
    /\ pc = "start" /\ func = "fields_file"
    /\ wret = NoWret /\ rret = NoRret
    /\ tid \in {3, 4}
    /\ \E i \in 1..5, c \in 1..Len(FieldChoices), b \in 1..Len(FieldFills) :
          /\ data = HeaderTrees[i]
          /\ f = [buf |-> FieldsFile(tid, HeaderTrees[i], FieldChoices[c],
                                     FieldFills[b]),
                  pos |-> 0]

\* dm_read_header on the file
ReadFieldsFile ==
    /\ pc = "start" /\ func = "fields_file"
    /\ ReadHeaderResult(dm_read_header(Ctx(f, version, size_type)))

NextFields == ReadFieldsFile

SpecFields == InitFields /\ [][NextFields]_vars

\* the tree read from the file as it was written
UnchangedFileTree ==
    dm_read_header(Ctx([buf |-> WrittenFile(tid, data), pos |-> 0], 3, "L"))

\* C26: the tree returned by dm_read_header does not depend on the value of
\* the header's file-size field, nor in version 4 on the value of any entry's
\* byte-length field: a file that differs from another in those fields only
\* decodes to the same tree, and is not rejected.
C26_SizeFieldsIgnored ==
    (func = "fields_file" /\ pc = "done") =>
        /\ rret.err = ""
        /\ UnchangedFileTree.s.err = ""
        /\ rret.val = UnchangedFileTree.val
        /\ rret.pos = Len(f.buf)

\* a version 4 file of a nested tree, its file size and the byte lengths of
\* its seven entries all overwritten with 255, was read
C26_Witness ==
    /\ func = "fields_file" /\ pc = "done" /\ tid = 4
    /\ data = HeaderTrees[4]
    /\ f.buf = FieldsFile(4, data, "both", 255)
    /\ Len(FileEntryOffsets(4, WrittenFile(4, data))) = 7
    /\ f.buf # WrittenFile(4, data)
    /\ rret.err = "" /\ rret.val = UnchangedFileTree.val

----------------------------------------------------------------------------
(* The envelope round trip: dm_read_header on what dm_write_header wrote *)

\* trees the writer takes: groups of scalars, arrays and groups; a dict with
\* entries that are skipped; a struct array; an array.array leaf; a struct
\* in a struct; an int16 array of a negative number under the key "Name"
EnvelopeTrees ==
    << PyDict(<<>>),
       PyList(<<TreeLeaves[1]>>),
       PyDict(<< <<TreeKeys[1], TreeLeaves[3]>> >>),
       NestedDict(TreeKeys[1], TreeLeaves[1], TreeKeys[2], TreeLeaves[4]),
       NestedList(TreeLeaves[5], TreeKeys[2], TreeLeaves[3]),
       PyDict(<< <<TreeKeys[1], PyNone>>, <<PyStr(<<>>), PyInt(45)>>,
                 <<KeyHi, PyBool(TRUE)>> >>),
       PyList(<<OtherLeaves[4]>>),
       PyDict(<< <<TreeKeys[1], OtherValues[1]>> >>),
       PyList(<<PyTuple(<<PyInt(3), PyTuple(<<>>)>>)>>),
       PyDict(<< <<TreeKeys[3], TreeLeaves[8]>> >>) >>

InitEnvelope ==
    /\ InitCaller("envelope")
    /\ tid \in {0, 3, 4}
    /\ \E i \in 1..Len(EnvelopeTrees) : data = EnvelopeTrees[i]

WriteEnvelope ==
    /\ pc = "start" /\ func = "envelope"
    /\ Written([hdr |-> 0,
                s |-> dm_write_header(Ctx(f, version, size_type), tid, data)])

\* dm_read_header on what dm_write_header wrote
ReadEnvelope ==
    /\ pc = "written" /\ func = "envelope" /\ wret.err = ""
    /\ ReadHeaderResult(dm_read_header(Rewound))

NextEnvelope == WriteEnvelope \/ ReadEnvelope

SpecEnvelope == InitEnvelope /\ [][NextEnvelope]_vars

\* C27: for both format versions and every tag tree the writer accepts,
\* dm_read_header on the bytes produced by dm_write_header succeeds, every
\* internal check passing, and leaves the read position at the end of the
\* stream.
C27_EnvelopeReadable ==
    (func = "envelope" /\ pc = "done") =>
        /\ rret.err = ""
        /\ rret.pos = Len(f.buf)

----------------------------------------------------------------------------
(* The type registry: from type id to format character and back *)

\* the type ids looked up: those of the registry and others around them
MaxTypeId == 24

InitRegistry ==
    /\ InitCaller("registry")
    /\ tid \in 0..MaxTypeId
    /\ data = PyNone

\* sc = get_structchar_for_dmtype(t)
StructCharForType ==
    /\ pc = "start" /\ func = "registry"
    /\ rret' = [rret EXCEPT !.val = [t |-> "structchar",
                                     v |-> get_structchar_for_dmtype(tid)]]
    /\ pc' = "char"
    /\ UNCHANGED <<version, size_type, f, data, wret, func, tid>>

\* get_dmtype_for_structchar(sc)
TypeForStructChar ==
    /\ pc = "char" /\ func = "registry"
    /\ rret' = [rret EXCEPT !.hdr = get_dmtype_for_structchar(rret.val.v)]
    /\ pc' = "done"
    /\ UNCHANGED <<version, size_type, f, data, wret, func, tid>>

NextRegistry == StructCharForType \/ TypeForStructChar

SpecRegistry == InitRegistry /\ [][NextRegistry]_vars

\* C28 as claimed: for every simple type id t in {2, ..., 12},
\* get_dmtype_for_structchar(get_structchar_for_dmtype(t)) equals t.
C28_RegistryRoundTrip_Claimed ==
    (func = "registry" /\ pc = "done" /\ tid \in 2..12) => rret.hdr = tid

\* C28, amended: the same for the type ids 2 to 8, 11 and 12; for 9 (char)
\* and 10 (octet), whose format character "b" is that of 8 (bool) as well,
\* the result is 8, the first entry of the table with that character.
C28_RegistryRoundTrip ==
    (func = "registry" /\ pc = "done" /\ tid \in 2..12) =>
        rret.hdr = IF tid \in {9, 10} THEN 8 ELSE tid

\* type id 9 was looked up as "b", and "b" as 8
C28_Witness ==
    /\ func = "registry" /\ pc = "done" /\ tid = 9
    /\ rret.val.v = "b" /\ rret.hdr = 8

----------------------------------------------------------------------------
(* StructArray: the byte width of an element *)

\* the sum of the byte widths of the fields, packed
PackedWidth(typecodes) ==
    Sum([i \in 1..Len(typecodes) |-> StdSize(typecodes[i])])

\* the element count in the sub-header of the struct array written: the word
\* after the array's element type and the struct's length, field count and
\* field pairs
OutputElementCount == OutputWord(4 + 2 * Len(data.v.typecodes))

\* C29: for every list of struct-array field typecodes, including lists that
\* mix fields of different widths, the per-element byte width that
\* StructArray uses to read the payload and to count elements equals the sum
\* of the byte widths of its fields (packed, with no padding), so that
\* reading n elements consumes exactly n times that sum.
C29_PackedElementWidth ==
    (func = "array" /\ data.t = "structarray" /\ pc = "done" /\ rret.err = "") =>
        /\ StructArray_bytelen(data.v, 1) = PackedWidth(data.v.typecodes)
        /\ Len(rret.val.v.raw_data.v)
               = OutputElementCount * PackedWidth(data.v.typecodes)

----------------------------------------------------------------------------
(* Groups in a file: dm_read_tag_root on groups of any make *)

\* a group of a file: its is_dict flag and its entries; an entry: its kind
\* byte, whether it has a name, and its body, a leaf value or a group
FileGroup(is_dict, entries) ==
    [t |-> "group", is_dict |-> is_dict, entries |-> entries]

FileEntry(kind, named, body) == [kind |-> kind, named |-> named, body |-> body]

\* the groups nested in an entry: an empty list, a dict with an unnamed
\* entry, a dict with a named entry, a list with a named entry
InnerGroups ==
    << FileGroup(FALSE, <<>>),
       FileGroup(TRUE, <<FileEntry(TAG_TYPE_DATA, FALSE, PyInt(45))>>),
       FileGroup(TRUE, <<FileEntry(TAG_TYPE_DATA, TRUE, PyInt(45))>>),
       FileGroup(FALSE, <<FileEntry(TAG_TYPE_DATA, TRUE, PyInt(45))>>) >>

\* a kind byte that is neither TAG_TYPE_ARRAY nor TAG_TYPE_DATA: 19
OtherKind == TAG_TYPE_ARRAY - 1

\* the entries of the outer group: leaves and groups, named or not, and
\* entries of another kind
FileEntries ==
    {FileEntry(k, nm, PyInt(45)) : k \in {TAG_TYPE_DATA, OtherKind}, nm \in BOOLEAN}
    \cup {FileEntry(TAG_TYPE_ARRAY, nm, InnerGroups[i]) :
            nm \in BOOLEAN, i \in 1..Len(InnerGroups)}

\* the name of the i-th entry of a group, when it has one: "d", "hi"
FileEntryName(i) == IF i = 1 THEN TreeKeys[1] ELSE KeyHi

\* the bytes of a group and of an entry
RECURSIVE GroupBytes(_, _)
EntryBytes_body(e, i, ver, body) ==
    <<e.kind>>
    \o (IF e.named THEN BE(Len(FileEntryName(i).v), 2) \o FileEntryName(i).v
        ELSE BE(0, 2))
    \o (IF ver = 4 THEN BE(Len(body), 8) ELSE <<>>)
    \o body

EntryBytes(e, i, ver) ==
    EntryBytes_body(
        e, i, ver,
        IF e.body.t = "group" THEN GroupBytes(e.body, ver)
        ELSE dm_write_tag_data(
                Ctx([buf |-> <<>>, pos |-> 0], ver, IF ver = 4 THEN "Q" ELSE "L"),
                e.body).buf)

GroupBytes(g, ver) ==
    <<IF g.is_dict THEN 1 ELSE 0, 0>>
    \o BE(Len(g.entries), IF ver = 4 THEN 8 ELSE 4)
    \o Concat([i \in 1..Len(g.entries) |-> EntryBytes(g.entries[i], i, ver)])

\* data is the group the file was made of
InitGroupFile ==
    /\ \E g \in Globals : version = g.version /\ size_type = g.size_type
    /\ pc = "start" /\ func = "group_file"
    /\ wret = NoWret /\ rret = NoRret
    /\ tid = 0
    /\ \E is_dict \in BOOLEAN :
          \/ data = FileGroup(is_dict, <<>>)
          \/ \E e1 \in FileEntries : data = FileGroup(is_dict, <<e1>>)
          \/ \E e1, e2 \in FileEntries : data = FileGroup(is_dict, <<e1, e2>>)
    /\ f = [buf |-> GroupBytes(data, version), pos |-> 0]

\* dm_read_tag_root on the file
ReadGroupFile ==
    /\ pc = "start" /\ func = "group_file"
    /\ ReadTagRootResult(dm_read_tag_root(Ctx(f, version, size_type)))

NextGroupFile == ReadGroupFile

SpecGroupFile == InitGroupFile /\ [][NextGroupFile]_vars

\* every entry of the group, and of the groups nested in it, is a leaf or a
\* group, and has a name exactly when its group is flagged as dict
RECURSIVE Homogeneous(_)
Homogeneous(g) ==
    \A i \in 1..Len(g.entries) :
        /\ g.entries[i].kind \in {TAG_TYPE_ARRAY, TAG_TYPE_DATA}
        /\ g.entries[i].named = g.is_dict
        /\ g.entries[i].kind = TAG_TYPE_ARRAY => Homogeneous(g.entries[i].body)

\* the tree of a homogeneous group
RECURSIVE GroupTree(_)
GroupTree(g) ==
    IF g.t # "group" THEN g
    ELSE IF g.is_dict
    THEN PyDict([i \in 1..Len(g.entries) |->
                    <<FileEntryName(i), GroupTree(g.entries[i].body)>>])
    ELSE PyList([i \in 1..Len(g.entries) |-> GroupTree(g.entries[i].body)])

\* C30: dm_read_tag_root returns only homogeneous groups: a dict only if
\* every entry of a group flagged as dict has a non-empty name, and a list
\* only if every entry of a group flagged as list has no name; a group that
\* violates this, or an entry whose kind byte is neither 20 nor 21, makes the
\* read fail with an error.
C30_HomogeneousGroups ==
    (func = "group_file" /\ pc = "done") =>
        /\ rret.err = "" <=> Homogeneous(data)
        /\ rret.err = "" => (rret.val = GroupTree(data) /\ rret.pos = Len(f.buf))
        /\ rret.err # "" => rret.val = PyNone

\* a dm4 dict of a leaf "d" and a group "hi", itself flagged as dict and
\* holding a leaf without a name, was refused
C30_Witness ==
    /\ func = "group_file" /\ pc = "done" /\ version = 4
    /\ data = FileGroup(TRUE, <<FileEntry(TAG_TYPE_DATA, TRUE, PyInt(45)),
                                 FileEntry(TAG_TYPE_ARRAY, TRUE, InnerGroups[2])>>)
    /\ ~Homogeneous(data)
    /\ rret.err = "AssertionError" /\ rret.val = PyNone

====
